---- MODULE Spec2Model ----
(***************************************************************************)
(* AutoDrone: the grid-world simulator (js/game.js), the bytecode virtual  *)
(* machine (vm.js) and the driver loop of the application (js/main.js).    *)
(***************************************************************************)
EXTENDS Integers, Sequences, FiniteSets, TLC

(***************************************************************************)
(* Bounds of the exploration.                                              *)
(***************************************************************************)
MaxTicks == 4
MaxWait == 2
MaxSnapshotTick == 0
MaxLog == 3
MaxRewind == 5
MaxLoop == 3

(***************************************************************************)
(* js/game.js: tile types, direction vectors, turn tables, energy costs.   *)
(***************************************************************************)
EMPTY == "empty"
WALL == "wall"
CRYSTAL == "crystal"
DATA == "data"
ENERGY_CELL == "energy"
HAZARD == "hazard"
CHARGER == "charger"

Directions ==
    [north |-> [dx |-> 0, dy |-> -1],
     east  |-> [dx |-> 1, dy |-> 0],
     south |-> [dx |-> 0, dy |-> 1],
     west  |-> [dx |-> -1, dy |-> 0]]

TurnLeft == [north |-> "west", west |-> "south", south |-> "east", east |-> "north"]

TurnRight == [north |-> "east", east |-> "south", south |-> "west", west |-> "north"]

EnergyCosts == [MOVE |-> 2, TURN |-> 1, COLLECT |-> 3, SCAN |-> 1, WAIT |-> 0]

hazardDamage == 10
chargeAmount == 20
cellEnergy == 10
scanCooldownMax == 3

(***************************************************************************)
(* Helpers standing for JavaScript built-ins.                              *)
(***************************************************************************)
Min(a, b) == IF a < b THEN a ELSE b
Max(a, b) == IF a > b THEN a ELSE b
\* v || d on numbers: 0 (and undefined) are falsy
OrNum(v, d) == IF v = 0 THEN d ELSE v
\* v || d on strings: "" (and undefined) are falsy
OrStr(v, d) == IF v = "" THEN d ELSE v
\* a row-major array literal, 0-indexed as in JavaScript
Rows(rows) == [y \in 0..(Len(rows) - 1) |-> [x \in 0..(Len(rows[y + 1]) - 1) |-> rows[y + 1][x + 1]]]

(***************************************************************************)
(* Level data (js/levels.js format).  Level1 is the game's first level,    *)
(* the 5x3 reference grid; Arena is a 4x3 level holding every tile kind.   *)
(***************************************************************************)
Level1 ==
    [id |-> "level_1", width |-> 5, height |-> 3,
     grid |-> Rows(<< <<WALL, WALL, WALL, WALL, WALL>>,
                      <<WALL, EMPTY, EMPTY, CRYSTAL, WALL>>,
                      <<WALL, WALL, WALL, WALL, WALL>> >>),
     startX |-> 1, startY |-> 1, startFacing |-> "east",
     startEnergy |-> 100, maxEnergy |-> 100, scanRadius |-> 5,
     objectives |-> << [type |-> "collect", resource |-> "crystal", count |-> 1] >>]

Arena ==
    [id |-> "arena", width |-> 4, height |-> 3,
     grid |-> Rows(<< <<CRYSTAL, HAZARD, WALL, EMPTY>>,
                      <<CHARGER, EMPTY, ENERGY_CELL, DATA>>,
                      <<EMPTY, DATA, EMPTY, WALL>> >>),
     startX |-> 1, startY |-> 1, startFacing |-> "east",
     startEnergy |-> 12, maxEnergy |-> 14, scanRadius |-> 1,
     objectives |-> << [type |-> "collect", resource |-> "energyCell", count |-> 1] >>]

\* Arena with a second objective, as in the game's last level
Duo == [Arena EXCEPT !.id = "duo",
                     !.objectives = << [type |-> "collect", resource |-> "energyCell", count |-> 1],
                                       [type |-> "collect", resource |-> "data", count |-> 1] >>]

Levels == <<Level1, Arena>>
\* the levels of the call-by-call exploration of the simulator
CallLevels == <<Level1, Arena, Duo>>

VARIABLES
    level,      \* main.js currentLevelData: index into Levels
    gameState,  \* the GameState object (the World)
    vm,         \* the VirtualMachine object
    pre,        \* history: the VM and World before each tick executed since the VM
                \* was started, while no rewind has happened
    saved,      \* a value returned by gameState.snapshot(), or NoSnapshot
    atSaved,    \* history: the World as it was when `saved` was taken, and whether
                \* a restore of `saved` has since undone a change
    ret,        \* the last call made and what it returned
    program,    \* the Program tree the driver compiled, or NoProgram
    actions,    \* history: the actions the driver has applied since the VM was created
    sinceScan,  \* history: stats.ticks elapsed since the last successful scan, or -1
    twin,       \* the same program written in the other syntax family, with its own
                \* VM and World, run side by side; NoTwin when there is none
    lexer,      \* a CppLexer object at work on a source text; NoLexer when there is none
    app,        \* the AutoDroneApp fields about execution: isRunning, executionInterval
                \* (a timer is set), and history: how often onExecutionComplete has run
                \* for this.vm (completions) and for any one VM so far (most)
    heap        \* the objects behind the World's and the snapshots' fields: which
                \* object each field refers to, and history: the state each history
                \* entry gave when it was first restored; NoHeap when not followed

vars == <<level, gameState, vm, pre, saved, atSaved, ret, program, actions, sinceScan, twin,
          lexer, app, heap>>

NoHeap == [objects |-> << >>]

NoSnapshot == [none |-> TRUE]
NoTrace == [clean |-> TRUE, states |-> << >>]
NoResult == [op |-> "none"]
NoProgram == [type |-> "None"]
NoTwin == [program |-> NoProgram]
NoLexer == [source |-> << >>]
NoApp == [isRunning |-> FALSE, executionInterval |-> FALSE, completions |-> 0, most |-> 0]

(***************************************************************************)
(* GameState (js/game.js)                                                  *)
(***************************************************************************)
cloneGrid(grid) == [y \in DOMAIN grid |-> [x \in DOMAIN grid[y] |-> grid[y][x]]]

createRevealedGrid(width, height) == [y \in 0..(height - 1) |-> [x \in 0..(width - 1) |-> FALSE]]

isInBounds(gs, x, y) == x >= 0 /\ x < gs.gridWidth /\ y >= 0 /\ y < gs.gridHeight

revealAround(gs, cx, cy, radius) ==
    [gs EXCEPT !.revealed =
        [y \in DOMAIN gs.revealed |-> [x \in DOMAIN gs.revealed[y] |->
            IF /\ x - cx >= -radius /\ x - cx <= radius
               /\ y - cy >= -radius /\ y - cy <= radius
               /\ isInBounds(gs, x, y)
            THEN TRUE ELSE gs.revealed[y][x]]]]

\* mutant: cells outside the grid read as empty instead of wall
getTile_OutsideEmpty(gs, x, y) == IF ~isInBounds(gs, x, y) THEN EMPTY ELSE gs.grid[y][x]

getTile(gs, x, y) == IF ~isInBounds(gs, x, y) THEN WALL ELSE gs.grid[y][x]

setTile(gs, x, y, type) ==
    IF isInBounds(gs, x, y) THEN [gs EXCEPT !.grid[y][x] = type] ELSE gs

getPositionInDirection(gs, direction) ==
    LET facing == CASE direction = "forward" -> gs.drone.facing
                    [] direction = "back" -> TurnRight[TurnRight[gs.drone.facing]]
                    [] direction = "left" -> TurnLeft[gs.drone.facing]
                    [] direction = "right" -> TurnRight[gs.drone.facing]
                    [] OTHER -> gs.drone.facing
        vec == Directions[facing]
    IN [x |-> gs.drone.x + vec.dx, y |-> gs.drone.y + vec.dy]

InitialDrone(lv) ==
    [x |-> OrNum(lv.startX, 0), y |-> OrNum(lv.startY, 0),
     facing |-> OrStr(lv.startFacing, "north"),
     energy |-> OrNum(lv.startEnergy, 100), maxEnergy |-> OrNum(lv.maxEnergy, 100)]

InitialInventory == [crystal |-> 0, data |-> 0, energyCell |-> 0]

InitialStats ==
    [ticks |-> 0, moves |-> 0, turns |-> 0, collects |-> 0, scans |-> 0,
     energyUsed |-> 0, energyWasted |-> 0]

\* new GameState(level)
NewGameState(lv) ==
    LET gs == [levelId |-> lv.id, gridWidth |-> lv.width, gridHeight |-> lv.height,
               grid |-> cloneGrid(lv.grid),
               revealed |-> createRevealedGrid(lv.width, lv.height),
               scanRadius |-> OrNum(lv.scanRadius, 2),
               drone |-> InitialDrone(lv),
               inventory |-> InitialInventory,
               objectives |-> lv.objectives,
               objectivesCompleted |-> << >>,
               stats |-> InitialStats,
               scanCooldown |-> 0,
               status |-> "playing", statusMessage |-> ""]
    IN revealAround(gs, gs.drone.x, gs.drone.y, gs.scanRadius)

\* mutant: scan tests the energy before the cooldown
scan_EnergyFirst(gs, direction) ==
    IF gs.drone.energy < EnergyCosts.SCAN THEN [gs |-> gs, result |-> "no_energy"]
    ELSE IF gs.scanCooldown > 0 THEN [gs |-> gs, result |-> "cooldown"]
    ELSE
        LET g1 == [gs EXCEPT !.drone.energy = @ - EnergyCosts.SCAN,
                             !.stats.energyUsed = @ + EnergyCosts.SCAN,
                             !.stats.scans = @ + 1,
                             !.scanCooldown = scanCooldownMax]
            pos == getPositionInDirection(g1, direction)
            g2 == IF isInBounds(g1, pos.x, pos.y)
                  THEN [g1 EXCEPT !.revealed[pos.y][pos.x] = TRUE] ELSE g1
        IN [gs |-> g2, result |-> getTile(g2, pos.x, pos.y)]

\* scan(direction): the new World and the returned tile kind or sentinel
scan(gs, direction) ==
    IF gs.scanCooldown > 0 THEN [gs |-> gs, result |-> "cooldown"]
    ELSE IF gs.drone.energy < EnergyCosts.SCAN THEN [gs |-> gs, result |-> "no_energy"]
    ELSE
        LET g1 == [gs EXCEPT !.drone.energy = @ - EnergyCosts.SCAN,
                             !.stats.energyUsed = @ + EnergyCosts.SCAN,
                             !.stats.scans = @ + 1,
                             !.scanCooldown = scanCooldownMax]
            pos == getPositionInDirection(g1, direction)
            g2 == IF isInBounds(g1, pos.x, pos.y)
                  THEN [g1 EXCEPT !.revealed[pos.y][pos.x] = TRUE] ELSE g1
        IN [gs |-> g2, result |-> getTile(g2, pos.x, pos.y)]

\* mutant: hazard damage is not floored at 0
executeMove_HazardUnfloored(gs, direction) ==
    LET cost == EnergyCosts.MOVE
        pos == getPositionInDirection(gs, direction)
        targetTile == getTile(gs, pos.x, pos.y)
    IN
    IF gs.drone.energy < cost
    THEN [gs |-> gs, result |-> [success |-> FALSE, reason |-> "Not enough energy"]]
    ELSE IF targetTile = WALL
    THEN [gs |-> gs, result |-> [success |-> FALSE, reason |-> "Cannot move into wall"]]
    ELSE
        LET g1 == [gs EXCEPT !.drone.x = pos.x, !.drone.y = pos.y,
                             !.drone.energy = @ - cost,
                             !.stats.energyUsed = @ + cost,
                             !.stats.moves = @ + 1,
                             !.stats.ticks = @ + 1,
                             !.scanCooldown = IF @ > 0 THEN @ - 1 ELSE @]
            g2 == revealAround(g1, pos.x, pos.y, g1.scanRadius)
            g3 == IF targetTile = HAZARD
                  THEN [g2 EXCEPT !.drone.energy = @ - hazardDamage,
                                  !.stats.energyUsed = @ + hazardDamage]
                  ELSE g2
            g4 == IF targetTile = CHARGER
                  THEN setTile([g3 EXCEPT !.drone.energy = Min(g3.drone.maxEnergy, @ + chargeAmount)],
                               pos.x, pos.y, EMPTY)
                  ELSE g3
            g5 == IF g4.drone.energy <= 0
                  THEN [g4 EXCEPT !.status = "lost", !.statusMessage = "Out of energy!"]
                  ELSE g4
        IN [gs |-> g5, result |-> [success |-> TRUE, reason |-> ""]]

executeMove(gs, direction) ==
    LET cost == EnergyCosts.MOVE
        pos == getPositionInDirection(gs, direction)
        targetTile == getTile(gs, pos.x, pos.y)
    IN
    IF gs.drone.energy < cost
    THEN [gs |-> gs, result |-> [success |-> FALSE, reason |-> "Not enough energy"]]
    ELSE IF targetTile = WALL
    THEN [gs |-> gs, result |-> [success |-> FALSE, reason |-> "Cannot move into wall"]]
    ELSE
        LET g1 == [gs EXCEPT !.drone.x = pos.x, !.drone.y = pos.y,
                             !.drone.energy = @ - cost,
                             !.stats.energyUsed = @ + cost,
                             !.stats.moves = @ + 1,
                             !.stats.ticks = @ + 1,
                             !.scanCooldown = IF @ > 0 THEN @ - 1 ELSE @]
            g2 == revealAround(g1, pos.x, pos.y, g1.scanRadius)
            g3 == IF targetTile = HAZARD
                  THEN [g2 EXCEPT !.drone.energy = Max(0, @ - hazardDamage),
                                  !.stats.energyUsed = @ + hazardDamage]
                  ELSE g2
            g4 == IF targetTile = CHARGER
                  THEN setTile([g3 EXCEPT !.drone.energy = Min(g3.drone.maxEnergy, @ + chargeAmount)],
                               pos.x, pos.y, EMPTY)
                  ELSE g3
            g5 == IF g4.drone.energy <= 0
                  THEN [g4 EXCEPT !.status = "lost", !.statusMessage = "Out of energy!"]
                  ELSE g4
        IN [gs |-> g5, result |-> [success |-> TRUE, reason |-> ""]]

\* mutant: a turn takes two ticks off the scan cooldown
executeTurn_CoolsTwice(gs, direction) ==
    LET cost == EnergyCosts.TURN IN
    IF gs.drone.energy < cost
    THEN [gs |-> gs, result |-> [success |-> FALSE, reason |-> "Not enough energy"]]
    ELSE
        LET g1 == CASE direction = "left" -> [gs EXCEPT !.drone.facing = TurnLeft[@]]
                    [] direction = "right" -> [gs EXCEPT !.drone.facing = TurnRight[@]]
                    [] OTHER -> gs
            g2 == [g1 EXCEPT !.drone.energy = @ - cost,
                             !.stats.energyUsed = @ + cost,
                             !.stats.turns = @ + 1,
                             !.stats.ticks = @ + 1,
                             !.scanCooldown = Max(0, @ - 2)]
        IN [gs |-> g2, result |-> [success |-> TRUE, reason |-> ""]]

executeTurn(gs, direction) ==
    LET cost == EnergyCosts.TURN IN
    IF gs.drone.energy < cost
    THEN [gs |-> gs, result |-> [success |-> FALSE, reason |-> "Not enough energy"]]
    ELSE
        LET g1 == CASE direction = "left" -> [gs EXCEPT !.drone.facing = TurnLeft[@]]
                    [] direction = "right" -> [gs EXCEPT !.drone.facing = TurnRight[@]]
                    [] OTHER -> gs
            g2 == [g1 EXCEPT !.drone.energy = @ - cost,
                             !.stats.energyUsed = @ + cost,
                             !.stats.turns = @ + 1,
                             !.stats.ticks = @ + 1,
                             !.scanCooldown = IF @ > 0 THEN @ - 1 ELSE @]
        IN [gs |-> g2, result |-> [success |-> TRUE, reason |-> ""]]

\* this.inventory[resource] || 0
inventoryCount(gs, resource) ==
    IF resource \in DOMAIN gs.inventory THEN gs.inventory[resource] ELSE 0

objectiveKey(obj) == <<obj.type, obj.resource>>

\* the loop of checkObjectives over objectives[i..]: the completion map and allCompleted
RECURSIVE checkObjectivesFrom(_, _, _, _)
checkObjectivesFrom(gs, i, completed, allCompleted) ==
    IF i > Len(gs.objectives) THEN [completed |-> completed, allCompleted |-> allCompleted]
    ELSE
        LET obj == gs.objectives[i]
            key == objectiveKey(obj)
            c1 == IF obj.type = "collect"
                  THEN (key :> (inventoryCount(gs, obj.resource) >= obj.count)) @@ completed
                  ELSE completed
            done == key \in DOMAIN c1 /\ c1[key]
        IN checkObjectivesFrom(gs, i + 1, c1, allCompleted /\ done)

\* mutant: any level with objectives is won, whatever the inventory holds
checkObjectives_IgnoresProgress(gs) ==
    LET r == checkObjectivesFrom(gs, 1, gs.objectivesCompleted, TRUE)
        g1 == [gs EXCEPT !.objectivesCompleted = r.completed]
    IN IF Len(gs.objectives) > 0
       THEN [g1 EXCEPT !.status = "won", !.statusMessage = "All objectives completed!"]
       ELSE g1

checkObjectives(gs) ==
    LET r == checkObjectivesFrom(gs, 1, gs.objectivesCompleted, TRUE)
        g1 == [gs EXCEPT !.objectivesCompleted = r.completed]
    IN IF r.allCompleted /\ Len(gs.objectives) > 0
       THEN [g1 EXCEPT !.status = "won", !.statusMessage = "All objectives completed!"]
       ELSE g1

\* mutant: the cost is taken before the tile is looked at
executeCollect_ChargesFirst(gs) ==
    LET cost == EnergyCosts.COLLECT
        x == gs.drone.x
        y == gs.drone.y
        currentTile == getTile(gs, x, y)
    IN
    IF gs.drone.energy < cost
    THEN [gs |-> gs, result |-> [success |-> FALSE, reason |-> "Not enough energy"]]
    ELSE IF currentTile \notin {CRYSTAL, DATA, ENERGY_CELL}
    THEN [gs |-> [gs EXCEPT !.drone.energy = @ - cost, !.stats.energyUsed = @ + cost],
          result |-> [success |-> FALSE, reason |-> "Nothing to collect here"]]
    ELSE
        LET g1 == CASE currentTile = CRYSTAL ->
                        setTile([gs EXCEPT !.inventory.crystal = @ + 1], x, y, EMPTY)
                    [] currentTile = DATA ->
                        setTile([gs EXCEPT !.inventory.data = @ + 1], x, y, EMPTY)
                    [] currentTile = ENERGY_CELL ->
                        setTile([gs EXCEPT !.inventory.energyCell = @ + 1,
                                           !.drone.energy = Min(gs.drone.maxEnergy, @ + cellEnergy)],
                                x, y, EMPTY)
            g2 == [g1 EXCEPT !.drone.energy = @ - cost,
                             !.stats.energyUsed = @ + cost,
                             !.stats.collects = @ + 1,
                             !.stats.ticks = @ + 1,
                             !.scanCooldown = IF @ > 0 THEN @ - 1 ELSE @]
        IN [gs |-> checkObjectives(g2), result |-> [success |-> TRUE, reason |-> ""]]

executeCollect(gs) ==
    LET cost == EnergyCosts.COLLECT
        x == gs.drone.x
        y == gs.drone.y
        currentTile == getTile(gs, x, y)
    IN
    IF gs.drone.energy < cost
    THEN [gs |-> gs, result |-> [success |-> FALSE, reason |-> "Not enough energy"]]
    ELSE IF currentTile \notin {CRYSTAL, DATA, ENERGY_CELL}
    THEN [gs |-> gs, result |-> [success |-> FALSE, reason |-> "Nothing to collect here"]]
    ELSE
        LET g1 == CASE currentTile = CRYSTAL ->
                        setTile([gs EXCEPT !.inventory.crystal = @ + 1], x, y, EMPTY)
                    [] currentTile = DATA ->
                        setTile([gs EXCEPT !.inventory.data = @ + 1], x, y, EMPTY)
                    [] currentTile = ENERGY_CELL ->
                        setTile([gs EXCEPT !.inventory.energyCell = @ + 1,
                                           !.drone.energy = Min(gs.drone.maxEnergy, @ + cellEnergy)],
                                x, y, EMPTY)
            g2 == [g1 EXCEPT !.drone.energy = @ - cost,
                             !.stats.energyUsed = @ + cost,
                             !.stats.collects = @ + 1,
                             !.stats.ticks = @ + 1,
                             !.scanCooldown = IF @ > 0 THEN @ - 1 ELSE @]
        IN [gs |-> checkObjectives(g2), result |-> [success |-> TRUE, reason |-> ""]]

\* mutant: the restored energy is not capped at maxEnergy
executeWait_NoCap(gs, ticks) ==
    LET energyRestore == 1 * ticks
        g1 == [gs EXCEPT !.drone.energy = @ + energyRestore,
                         !.stats.ticks = @ + ticks,
                         !.scanCooldown = Max(0, @ - ticks)]
    IN [gs |-> g1, result |-> [success |-> TRUE, reason |-> ""]]

\* mutant: a wait counts as one tick whatever its length
executeWait_SingleTick(gs, ticks) ==
    LET energyRestore == 1 * ticks
        g1 == [gs EXCEPT !.drone.energy = Min(gs.drone.maxEnergy, @ + energyRestore),
                         !.stats.ticks = @ + 1,
                         !.scanCooldown = Max(0, @ - ticks)]
    IN [gs |-> g1, result |-> [success |-> TRUE, reason |-> ""]]

executeWait(gs, ticks) ==
    LET energyRestore == 1 * ticks
        g1 == [gs EXCEPT !.drone.energy = Min(gs.drone.maxEnergy, @ + energyRestore),
                         !.stats.ticks = @ + ticks,
                         !.scanCooldown = Max(0, @ - ticks)]
    IN [gs |-> g1, result |-> [success |-> TRUE, reason |-> ""]]

snapshot(gs) ==
    [grid |-> cloneGrid(gs.grid),
     revealed |-> [y \in DOMAIN gs.revealed |-> [x \in DOMAIN gs.revealed[y] |-> gs.revealed[y][x]]],
     drone |-> gs.drone,
     inventory |-> gs.inventory,
     stats |-> gs.stats,
     scanCooldown |-> gs.scanCooldown,
     status |-> gs.status,
     statusMessage |-> gs.statusMessage,
     objectivesCompleted |-> gs.objectivesCompleted]

\* mutant: restore leaves the revealed mask as it is
restore_KeepsRevealed(gs, s) ==
    [gs EXCEPT !.grid = cloneGrid(s.grid),
               !.drone = s.drone,
               !.inventory = s.inventory,
               !.stats = s.stats,
               !.scanCooldown = s.scanCooldown,
               !.status = s.status,
               !.statusMessage = s.statusMessage,
               !.objectivesCompleted = s.objectivesCompleted]

\* mutant: restore leaves the inventory as it is
restore_KeepsInventory(gs, s) ==
    [gs EXCEPT !.grid = cloneGrid(s.grid),
               !.revealed = [y \in DOMAIN s.revealed |-> [x \in DOMAIN s.revealed[y] |-> s.revealed[y][x]]],
               !.drone = s.drone,
               !.stats = s.stats,
               !.scanCooldown = s.scanCooldown,
               !.status = s.status,
               !.statusMessage = s.statusMessage,
               !.objectivesCompleted = s.objectivesCompleted]

restore(gs, s) ==
    [gs EXCEPT !.grid = cloneGrid(s.grid),
               !.revealed = [y \in DOMAIN s.revealed |-> [x \in DOMAIN s.revealed[y] |-> s.revealed[y][x]]],
               !.drone = s.drone,
               !.inventory = s.inventory,
               !.stats = s.stats,
               !.scanCooldown = s.scanCooldown,
               !.status = s.status,
               !.statusMessage = s.statusMessage,
               !.objectivesCompleted = s.objectivesCompleted]

reset(gs, lv) ==
    LET g1 == [gs EXCEPT !.grid = cloneGrid(lv.grid),
                         !.revealed = createRevealedGrid(lv.width, lv.height),
                         !.drone = InitialDrone(lv),
                         !.inventory = InitialInventory,
                         !.stats = InitialStats,
                         !.scanCooldown = 0,
                         !.status = "playing",
                         !.statusMessage = "",
                         !.objectivesCompleted = << >>]
    IN revealAround(g1, g1.drone.x, g1.drone.y, g1.scanRadius)

\* the mutable World fields, as the claims list them
WorldFields(gs) ==
    <<gs.grid, gs.revealed, gs.drone, gs.inventory, gs.stats, gs.scanCooldown,
      gs.status, gs.statusMessage, gs.objectivesCompleted>>

(***************************************************************************)
(* JavaScript values as they appear on the operand stack.  Two strings are *)
(* never ordered or added by the programs below, so ordering and addition  *)
(* are modelled on numbers and booleans only (anything else gives NaN).    *)
(***************************************************************************)
Null == [t |-> "null"]
NaN == [t |-> "nan"]
Num(n) == [t |-> "num", v |-> n]
Str(s) == [t |-> "str", v |-> s]
Bool(b) == [t |-> "bool", v |-> b]
\* an object; two objects are never identical (getInventory returns a fresh copy)
Obj(o) == [t |-> "obj", v |-> o]

truthy(x) ==
    CASE x.t = "num" -> x.v # 0
      [] x.t = "str" -> x.v # ""
      [] x.t = "bool" -> x.v
      [] x.t = "obj" -> TRUE
      [] OTHER -> FALSE

strictEquals(a, b) ==
    /\ a.t = b.t
    /\ a.t \notin {"nan", "obj"}
    /\ (a.t = "null" \/ a.v = b.v)

isNumeric(x) == x.t \in {"num", "bool"}
toNumber(x) == IF x.t = "bool" THEN (IF x.v THEN 1 ELSE 0) ELSE x.v

jsAdd(a, b) == IF isNumeric(a) /\ isNumeric(b) THEN Num(toNumber(a) + toNumber(b)) ELSE NaN
jsSub(a, b) == IF isNumeric(a) /\ isNumeric(b) THEN Num(toNumber(a) - toNumber(b)) ELSE NaN
jsEq(a, b) == Bool(strictEquals(a, b))
jsNeq(a, b) == Bool(~strictEquals(a, b))
jsLt(a, b) == Bool(isNumeric(a) /\ isNumeric(b) /\ toNumber(a) < toNumber(b))
jsGt(a, b) == Bool(isNumeric(a) /\ isNumeric(b) /\ toNumber(a) > toNumber(b))
jsLte(a, b) == Bool(isNumeric(a) /\ isNumeric(b) /\ toNumber(a) <= toNumber(b))
jsGte(a, b) == Bool(isNumeric(a) /\ isNumeric(b) /\ toNumber(a) >= toNumber(b))
jsAnd(a, b) == IF truthy(a) THEN b ELSE a
jsOr(a, b) == IF truthy(a) THEN a ELSE b

\* String.prototype.toLowerCase on the names the programs use
toLowerCase(name) ==
    CASE name = "ENERGY" -> "energy"
      [] name = "Energy" -> "energy"
      [] name = "TRUE" -> "true"
      [] name = "True" -> "true"
      [] name = "SCAN" -> "scan"
      [] name = "Scan" -> "scan"
      [] OTHER -> name

(***************************************************************************)
(* Bytecode (js/compiler.js): instructions {op, arg, line}.  The programs  *)
(* are what Compiler.compile emits for the sources quoted.                 *)
(***************************************************************************)
Instruction(op, arg, line) == [op |-> op, arg |-> arg, line |-> line]

\* MOVE forward / COLLECT / MOVE forward / COLLECT
ProgGather ==
    << Instruction("MOVE", "forward", 1),
       Instruction("COLLECT", Null, 2),
       Instruction("MOVE", "forward", 3),
       Instruction("COLLECT", Null, 4),
       Instruction("HALT", Null, 0) >>

\* WHILE true: / MOVE back / END
ProgForever ==
    << Instruction("LOAD", "true", 1),
       Instruction("JIF", 4, 1),
       Instruction("MOVE", "back", 2),
       Instruction("JUMP", 0, 0),
       Instruction("HALT", Null, 0) >>

\* TURN left / LOG foo
ProgUnknown ==
    << Instruction("TURN", "left", 1),
       Instruction("LOAD", "foo", 2),
       Instruction("LOG", Null, 2),
       Instruction("HALT", Null, 0) >>

\* IF Scan() == "energy": / MOVE forward / END / WAIT 2 / LOG Energy
ProgScan ==
    << Instruction("CALL", [name |-> "Scan", argCount |-> 0], 1),
       Instruction("PUSH", Str("energy"), 1),
       Instruction("EQ", Null, 1),
       Instruction("JIF", 5, 1),
       Instruction("MOVE", "forward", 2),
       Instruction("WAIT", 2, 4),
       Instruction("LOAD", "Energy", 5),
       Instruction("LOG", Null, 5),
       Instruction("HALT", Null, 0) >>

Programs == <<ProgGather, ProgForever, ProgUnknown, ProgScan>>

(***************************************************************************)
(* The Program tree (parser.js ASTNode) and the Compiler (js/compiler.js). *)
(* The compiler state is its instruction array, passed along as `ins`.     *)
(***************************************************************************)
\* the absent alternate of an IF statement (null)
NoNode == [type |-> "null"]

Program(body) == [type |-> "Program", body |-> body]
Block(statements) == [type |-> "Block", statements |-> statements]
MoveStatement(direction, line) == [type |-> "MoveStatement", direction |-> direction, line |-> line]
TurnStatement(direction, line) == [type |-> "TurnStatement", direction |-> direction, line |-> line]
CollectStatement(line) == [type |-> "CollectStatement", line |-> line]
WaitStatement(ticks, line) == [type |-> "WaitStatement", ticks |-> ticks, line |-> line]
LogStatement(expression, line) == [type |-> "LogStatement", expression |-> expression, line |-> line]
IfStatement(condition, consequent, alternate, line) ==
    [type |-> "IfStatement", condition |-> condition, consequent |-> consequent,
     alternate |-> alternate, line |-> line]
LoopStatement(count, body, line) ==
    [type |-> "LoopStatement", count |-> count, body |-> body, line |-> line]
WhileStatement(condition, body, line) ==
    [type |-> "WhileStatement", condition |-> condition, body |-> body, line |-> line]
Literal(value, line) == [type |-> "Literal", value |-> value, line |-> line]
Identifier(name, line) == [type |-> "Identifier", name |-> name, line |-> line]
CallExpression(callee, arguments, line) ==
    [type |-> "CallExpression", callee |-> callee, arguments |-> arguments, line |-> line]
MemberExpression(object, property, line) ==
    [type |-> "MemberExpression", object |-> object, property |-> property, line |-> line]
BinaryExpression(operator, left, right, line) ==
    [type |-> "BinaryExpression", operator |-> operator, left |-> left, right |-> right,
     line |-> line]
UnaryExpression(operator, operand, line) ==
    [type |-> "UnaryExpression", operator |-> operator, operand |-> operand, line |-> line]

\* emit(op, arg, line): the instruction array after the push
compilerEmit(ins, op, arg, line) == Append(ins, Instruction(op, arg, line))

\* mutant: patchJump leaves the placeholder in place
patchJump_Nop(ins, instrIndex, targetAddr) == ins

\* mutant: the jump is patched one instruction past the target
patchJump_OnePast(ins, instrIndex, targetAddr) ==
    [ins EXCEPT ![instrIndex + 1].arg = targetAddr + 1]

patchJump(ins, instrIndex, targetAddr) == [ins EXCEPT ![instrIndex + 1].arg = targetAddr]

currentAddr(ins) == Len(ins)

opMap ==
    ("+" :> "ADD") @@ ("-" :> "SUB") @@ ("==" :> "EQ") @@ ("!=" :> "NEQ") @@ ("<" :> "LT") @@
    (">" :> "GT") @@ ("<=" :> "LTE") @@ (">=" :> "GTE") @@ ("and" :> "AND") @@ ("or" :> "OR")

RECURSIVE compileExpression(_, _)
RECURSIVE compileArguments(_, _, _)
RECURSIVE compileBlockFrom(_, _, _)
RECURSIVE compileStatement(_, _)
RECURSIVE compileIfStatement(_, _)
RECURSIVE compileLoopStatement(_, _)
RECURSIVE compileWhileStatement(_, _)

\* the loop over expr.arguments, from the i-th on
compileArguments(ins, arguments, i) ==
    IF i > Len(arguments) THEN ins
    ELSE compileArguments(compileExpression(ins, arguments[i]), arguments, i + 1)

compileExpression(ins, expr) ==
    CASE expr.type = "Literal" -> compilerEmit(ins, "PUSH", expr.value, expr.line)
      [] expr.type = "Identifier" -> compilerEmit(ins, "LOAD", expr.name, expr.line)
      [] expr.type = "CallExpression" ->
            compilerEmit(compileArguments(ins, expr.arguments, 1), "CALL",
                         [name |-> expr.callee.name, argCount |-> Len(expr.arguments)],
                         expr.line)
      [] expr.type = "MemberExpression" ->
            compilerEmit(compileExpression(ins, expr.object), "MEMBER", expr.property,
                         expr.line)
      [] expr.type = "BinaryExpression" ->
            compilerEmit(compileExpression(compileExpression(ins, expr.left), expr.right),
                         opMap[expr.operator], Null, expr.line)
      [] expr.type = "UnaryExpression" ->
            IF expr.operator = "not"
            THEN compilerEmit(compileExpression(ins, expr.operand), "NOT", Null, expr.line)
            ELSE compileExpression(ins, expr.operand)

\* the loop of compileBlock, from the i-th statement on
compileBlockFrom(ins, statements, i) ==
    IF i > Len(statements) THEN ins
    ELSE compileBlockFrom(compileStatement(ins, statements[i]), statements, i + 1)

compileBlock(ins, statements) == compileBlockFrom(ins, statements, 1)

compileStatement(ins, stmt) ==
    CASE stmt.type = "MoveStatement" -> compilerEmit(ins, "MOVE", stmt.direction, stmt.line)
      [] stmt.type = "TurnStatement" -> compilerEmit(ins, "TURN", stmt.direction, stmt.line)
      [] stmt.type = "CollectStatement" -> compilerEmit(ins, "COLLECT", Null, stmt.line)
      [] stmt.type = "WaitStatement" -> compilerEmit(ins, "WAIT", stmt.ticks, stmt.line)
      [] stmt.type = "LogStatement" ->
            compilerEmit(compileExpression(ins, stmt.expression), "LOG", Null, stmt.line)
      [] stmt.type = "IfStatement" -> compileIfStatement(ins, stmt)
      [] stmt.type = "LoopStatement" -> compileLoopStatement(ins, stmt)
      [] stmt.type = "WhileStatement" -> compileWhileStatement(ins, stmt)

\* mutant: no JUMP over the alternate, the consequent falls into it
compileIfStatement_FallsThrough(ins, stmt) ==
    LET i1 == compileExpression(ins, stmt.condition)
        jumpIfFalse == Len(i1)
        i2 == compilerEmit(i1, "JIF", 0, stmt.line)
        i3 == compileBlock(i2, stmt.consequent.statements)
    IN IF stmt.alternate # NoNode
       THEN LET i5 == patchJump(i3, jumpIfFalse, currentAddr(i3))
            IN IF stmt.alternate.type = "IfStatement"
               THEN compileIfStatement(i5, stmt.alternate)
               ELSE compileBlock(i5, stmt.alternate.statements)
       ELSE patchJump(i3, jumpIfFalse, currentAddr(i3))

compileIfStatement(ins, stmt) ==
    LET i1 == compileExpression(ins, stmt.condition)
        jumpIfFalse == Len(i1)
        i2 == compilerEmit(i1, "JIF", 0, stmt.line)
        i3 == compileBlock(i2, stmt.consequent.statements)
    IN IF stmt.alternate # NoNode
       THEN LET jumpToEnd == Len(i3)
                i4 == compilerEmit(i3, "JUMP", 0, 0)
                i5 == patchJump(i4, jumpIfFalse, currentAddr(i4))
                i6 == IF stmt.alternate.type = "IfStatement"
                      THEN compileIfStatement(i5, stmt.alternate)
                      ELSE compileBlock(i5, stmt.alternate.statements)
            IN patchJump(i6, jumpToEnd, currentAddr(i6))
       ELSE patchJump(i3, jumpIfFalse, currentAddr(i3))

compileLoopStatement(ins, stmt) ==
    LET count == stmt.count
        i1 == compilerEmit(ins, "PUSH", Num(0), stmt.line)
        conditionAddr == currentAddr(i1)
        i2 == compilerEmit(i1, "PUSH", Num(count), 0)
        i3 == compilerEmit(i2, "LOAD", "__counter__", 0)
        i4 == compilerEmit(i3, "LT", Null, 0)
        jumpIfDone == Len(i4)
        i5 == compilerEmit(i4, "JIF", 0, 0)
        i6 == compileBlock(i5, stmt.body.statements)
        i7 == compilerEmit(i6, "PUSH", Num(1), 0)
        i8 == compilerEmit(i7, "ADD", Null, 0)
        i9 == compilerEmit(i8, "JUMP", conditionAddr, 0)
        i10 == patchJump(i9, jumpIfDone, currentAddr(i9))
    IN compilerEmit(i10, "POP", Null, 0)

\* mutant: the closing JUMP goes back to the body, past the condition
compileWhileStatement_SkipsTest(ins, stmt) ==
    LET i1 == compileExpression(ins, stmt.condition)
        jumpIfFalse == Len(i1)
        i2 == compilerEmit(i1, "JIF", 0, stmt.line)
        i3 == compileBlock(i2, stmt.body.statements)
        i4 == compilerEmit(i3, "JUMP", currentAddr(i2), 0)
    IN patchJump(i4, jumpIfFalse, currentAddr(i4))

compileWhileStatement(ins, stmt) ==
    LET loopStart == currentAddr(ins)
        i1 == compileExpression(ins, stmt.condition)
        jumpIfFalse == Len(i1)
        i2 == compilerEmit(i1, "JIF", 0, stmt.line)
        i3 == compileBlock(i2, stmt.body.statements)
        i4 == compilerEmit(i3, "JUMP", loopStart, 0)
    IN patchJump(i4, jumpIfFalse, currentAddr(i4))

\* buildSourceMap(): instruction index -> line, for the lines > 0
buildSourceMap(ins) ==
    [i \in {j \in 0..(Len(ins) - 1) : ins[j + 1].line > 0} |-> ins[i + 1].line]

\* compile(ast), ast being a Program node
compile(ast) ==
    LET ins == compilerEmit(compileBlock(<< >>, ast.body), "HALT", Null, 0)
    IN [instructions |-> ins, sourceMap |-> buildSourceMap(ins)]

(***************************************************************************)
(* VirtualMachine (vm.js)                                                  *)
(***************************************************************************)
\* options.maxInstructions (default 10000) and maxHistorySize (1000 in the
\* source), scaled down so that both limits are met within the exploration
maxInstructions == 6
maxHistorySize == 4

\* new VirtualMachine(bytecode, gameState, options); loopCounters is never
\* written by any instruction and is left out
NewVirtualMachine(bytecode) ==
    [bytecode |-> bytecode, ip |-> 0, stack |-> << >>, state |-> "READY",
     instructionCount |-> 0, eventLog |-> << >>, history |-> << >>,
     maxInstructions |-> maxInstructions]

\* mutant: emit puts the event at the head of the log
emit_Prepends(v, eventType, data) ==
    [v EXCEPT !.eventLog = <<[type |-> eventType, data |-> data, tick |-> v.instructionCount]>> \o @]

\* emit(eventType, data); the timestamp is not modelled, the handlers are
\* the driver's and change nothing of the VM
emit(v, eventType, data) ==
    [v EXCEPT !.eventLog = Append(@, [type |-> eventType, data |-> data, tick |-> v.instructionCount])]

\* sourceMap[ip] || 0, the source map holding instr.line for every line > 0
getCurrentLine(v) ==
    IF v.ip >= 0 /\ v.ip < Len(v.bytecode) /\ v.bytecode[v.ip + 1].line > 0
    THEN v.bytecode[v.ip + 1].line ELSE 0

\* mutant: at capacity the new snapshot is the one dropped
saveSnapshot_DropsNewest(v, gs) ==
    LET snap == [ip |-> v.ip, stack |-> v.stack, instructionCount |-> v.instructionCount,
                 gameState |-> snapshot(gs)]
        h == Append(v.history, snap)
    IN [v EXCEPT !.history = IF Len(h) > maxHistorySize THEN v.history ELSE h]

saveSnapshot(v, gs) ==
    LET snap == [ip |-> v.ip, stack |-> v.stack, instructionCount |-> v.instructionCount,
                 gameState |-> snapshot(gs)]
        h == Append(v.history, snap)
    IN [v EXCEPT !.history = IF Len(h) > maxHistorySize THEN Tail(h) ELSE h]

\* restoreSnapshot(snapshot): the VM and the World after it
restoreSnapshot(v, gs, snap) ==
    [vm |-> [v EXCEPT !.ip = snap.ip, !.stack = snap.stack,
                      !.instructionCount = snap.instructionCount],
     gs |-> restore(gs, snap.gameState)]

\* mutant: rewind without the clamp of the target index at the oldest snapshot
rewind_NoClamp(v, gs, steps) ==
    LET targetIndex == Len(v.history) - steps - 1 IN
    IF targetIndex >= 0 /\ targetIndex < Len(v.history)
    THEN LET r == restoreSnapshot(v, gs, v.history[targetIndex + 1])
             v1 == [r.vm EXCEPT !.history = SubSeq(v.history, 1, targetIndex + 1),
                                !.state = "PAUSED"]
         IN [vm |-> emit(v1, "STATE_CHANGE", [state |-> "PAUSED"]), gs |-> r.gs, result |-> TRUE]
    ELSE [vm |-> v, gs |-> gs, result |-> FALSE]

\* mutant: rewind pauses the VM even when there is no snapshot to restore
rewind_PausesAnyway(v, gs, steps) ==
    LET targetIndex == Max(0, Len(v.history) - steps - 1) IN
    IF targetIndex < Len(v.history)
    THEN LET r == restoreSnapshot(v, gs, v.history[targetIndex + 1])
             v1 == [r.vm EXCEPT !.history = SubSeq(v.history, 1, targetIndex + 1),
                                !.state = "PAUSED"]
         IN [vm |-> emit(v1, "STATE_CHANGE", [state |-> "PAUSED"]), gs |-> r.gs, result |-> TRUE]
    ELSE [vm |-> [v EXCEPT !.state = "PAUSED"], gs |-> gs, result |-> FALSE]

\* rewind(steps): the VM, the World and the returned boolean
rewind(v, gs, steps) ==
    LET targetIndex == Max(0, Len(v.history) - steps - 1) IN
    IF targetIndex < Len(v.history)
    THEN LET r == restoreSnapshot(v, gs, v.history[targetIndex + 1])
             v1 == [r.vm EXCEPT !.history = SubSeq(v.history, 1, targetIndex + 1),
                                !.state = "PAUSED"]
         IN [vm |-> emit(v1, "STATE_CHANGE", [state |-> "PAUSED"]), gs |-> r.gs, result |-> TRUE]
    ELSE [vm |-> v, gs |-> gs, result |-> FALSE]

reset_vm(v) ==
    [v EXCEPT !.ip = 0, !.stack = << >>, !.state = "READY", !.instructionCount = 0,
              !.history = << >>, !.eventLog = << >>]

\* mutant: run does not reset a halted VM
run_NoReset(v) == emit([v EXCEPT !.state = "RUNNING"], "STATE_CHANGE", [state |-> "RUNNING"])

run(v) ==
    LET v1 == IF v.state \in {"HALTED", "ERROR"} THEN reset_vm(v) ELSE v
    IN emit([v1 EXCEPT !.state = "RUNNING"], "STATE_CHANGE", [state |-> "RUNNING"])

pause(v) ==
    IF v.state = "RUNNING"
    THEN emit([v EXCEPT !.state = "PAUSED"], "STATE_CHANGE", [state |-> "PAUSED"])
    ELSE v

stop(v) == emit([v EXCEPT !.state = "HALTED"], "STATE_CHANGE", [state |-> "HALTED"])

\* the outcome of a tick or of an instruction: the VM, the World, the action
\* returned (or Null) and the RuntimeError thrown (or Null)
Returns(v, gs, action) == [vm |-> v, gs |-> gs, action |-> action, error |-> Null]
Throws(v, gs, message, line, hint) ==
    [vm |-> v, gs |-> gs, action |-> Null,
     error |-> [message |-> message, line |-> line, hint |-> hint]]

advance(v) == [v EXCEPT !.ip = @ + 1]
push(v, value) == [v EXCEPT !.stack = Append(@, value)]
peek(v) == IF Len(v.stack) = 0 THEN Null ELSE v.stack[Len(v.stack)]
\* pop() on a non-empty stack: the stack without its top
popped(v) == [v EXCEPT !.stack = SubSeq(@, 1, Len(@) - 1)]

\* the value a binary opcode pushes for the operands a and b
binaryResult(op, a, b) ==
    CASE op = "ADD" -> jsAdd(a, b)
      [] op = "SUB" -> jsSub(a, b)
      [] op = "EQ" -> jsEq(a, b)
      [] op = "NEQ" -> jsNeq(a, b)
      [] op = "LT" -> jsLt(a, b)
      [] op = "GT" -> jsGt(a, b)
      [] op = "LTE" -> jsLte(a, b)
      [] op = "GTE" -> jsGte(a, b)
      [] op = "AND" -> jsAnd(a, b)
      [] op = "OR" -> jsOr(a, b)

\* pop b, pop a, push the result, ip++; either pop throws on an empty stack
binaryOp(v, gs, line, op) ==
    IF Len(v.stack) = 0 THEN Throws(v, gs, "Stack underflow", line, "")
    ELSE IF Len(v.stack) = 1 THEN Throws(popped(v), gs, "Stack underflow", line, "")
    ELSE LET b == v.stack[Len(v.stack)]
             a == v.stack[Len(v.stack) - 1]
         IN Returns(advance(push(popped(popped(v)), binaryResult(op, a, b))), gs, Null)

\* loadVariable(name, line): [ok, value]
loadVariable(v, gs, name) ==
    LET lowerName == toLowerCase(name) IN
    CASE lowerName = "energy" -> [ok |-> TRUE, value |-> Num(gs.drone.energy)]
      [] lowerName = "x" -> [ok |-> TRUE, value |-> Num(gs.drone.x)]
      [] lowerName = "y" -> [ok |-> TRUE, value |-> Num(gs.drone.y)]
      [] lowerName = "facing" -> [ok |-> TRUE, value |-> Str(gs.drone.facing)]
      [] lowerName = "inventory" -> [ok |-> TRUE, value |-> Obj(gs.inventory)]
      [] lowerName = "true" -> [ok |-> TRUE, value |-> Bool(TRUE)]
      [] lowerName = "false" -> [ok |-> TRUE, value |-> Bool(FALSE)]
      [] lowerName = "__counter__" ->
            [ok |-> TRUE, value |-> IF truthy(peek(v)) THEN peek(v) ELSE Num(0)]
      [] OTHER -> [ok |-> FALSE, value |-> Null]

\* callFunction(callInfo, line): pops argCount arguments, then calls scan
callFunction(v, gs, callInfo, line) ==
    LET lowerName == toLowerCase(callInfo.name)
        have == Len(v.stack)
    IN
    IF have < callInfo.argCount
    THEN Throws([v EXCEPT !.stack = << >>], gs, "Stack underflow", line, "")
    ELSE
        LET v1 == [v EXCEPT !.stack = SubSeq(@, 1, have - callInfo.argCount)]
            dir == CASE lowerName = "scan" -> "forward"
                     [] lowerName = "scan_left" -> "left"
                     [] lowerName = "scan_right" -> "right"
                     [] OTHER -> ""
        IN IF dir = ""
           THEN Throws(v1, gs, "Unknown function", line,
                       "Valid functions: scan(), scan_left(), scan_right()")
           ELSE LET r == scan(gs, dir)
                IN Returns(advance(push(v1, Str(r.result))), r.gs, Null)

executeInstruction(v, gs, instr, line) ==
    CASE instr.op = "MOVE" ->
            Returns(advance(v), gs, [type |-> "MOVE", direction |-> instr.arg, line |-> line])
      [] instr.op = "TURN" ->
            Returns(advance(v), gs, [type |-> "TURN", direction |-> instr.arg, line |-> line])
      [] instr.op = "COLLECT" ->
            Returns(advance(v), gs, [type |-> "COLLECT", line |-> line])
      [] instr.op = "WAIT" ->
            Returns(advance(v), gs,
                    [type |-> "WAIT", ticks |-> OrNum(instr.arg, 1), line |-> line])
      [] instr.op = "LOG" ->
            IF Len(v.stack) = 0 THEN Throws(v, gs, "Stack underflow", line, "")
            ELSE Returns(advance(emit(popped(v), "LOG", [message |-> peek(v), line |-> line])),
                         gs, Null)
      [] instr.op = "PUSH" -> Returns(advance(push(v, instr.arg)), gs, Null)
      [] instr.op = "POP" ->
            IF Len(v.stack) = 0 THEN Throws(v, gs, "Stack underflow", line, "")
            ELSE Returns(advance(popped(v)), gs, Null)
      [] instr.op = "LOAD" ->
            LET r == loadVariable(v, gs, instr.arg) IN
            IF r.ok THEN Returns(advance(push(v, r.value)), gs, Null)
            ELSE Throws(v, gs, "Unknown variable", line,
                        "Valid variables: energy, x, y, facing, inventory")
      [] instr.op = "CALL" -> callFunction(v, gs, instr.arg, line)
      [] instr.op = "MEMBER" ->
            IF Len(v.stack) = 0 THEN Throws(v, gs, "Stack underflow", line, "")
            ELSE LET obj == peek(v) IN
                 IF obj.t = "obj" /\ instr.arg \in DOMAIN obj.v
                 THEN Returns(advance(push(popped(v), Num(obj.v[instr.arg]))), gs, Null)
                 ELSE Throws(popped(v), gs, "Cannot access property", line, "")
      [] instr.op \in {"ADD", "SUB", "EQ", "NEQ", "LT", "GT", "LTE", "GTE", "AND", "OR"} ->
            binaryOp(v, gs, line, instr.op)
      [] instr.op = "NOT" ->
            IF Len(v.stack) = 0 THEN Throws(v, gs, "Stack underflow", line, "")
            ELSE Returns(advance(push(popped(v), Bool(~truthy(peek(v))))), gs, Null)
      [] instr.op = "JUMP" -> Returns([v EXCEPT !.ip = instr.arg], gs, Null)
      [] instr.op = "JIF" ->
            IF Len(v.stack) = 0 THEN Throws(v, gs, "Stack underflow", line, "")
            ELSE IF ~truthy(peek(v)) THEN Returns([popped(v) EXCEPT !.ip = instr.arg], gs, Null)
            ELSE Returns(advance(popped(v)), gs, Null)
      [] instr.op = "JIT" ->
            IF Len(v.stack) = 0 THEN Throws(v, gs, "Stack underflow", line, "")
            ELSE IF truthy(peek(v)) THEN Returns([popped(v) EXCEPT !.ip = instr.arg], gs, Null)
            ELSE Returns(advance(popped(v)), gs, Null)
      [] instr.op = "HALT" ->
            Returns(emit([v EXCEPT !.state = "HALTED"], "STATE_CHANGE", [state |-> "HALTED"]),
                    gs, Null)
      [] instr.op = "NOP" -> Returns(advance(v), gs, Null)
      [] OTHER -> Throws(v, gs, "Unknown opcode", line, "")

\* mutant: tick goes on in state ERROR
tickIgnored_OnlyHalted(v) == v.state = "HALTED" \/ v.state = "READY"

\* the first two checks of tick: it returns null at once
tickIgnored(v) == v.state # "RUNNING" /\ v.state # "PAUSED"

\* mutant: the limit is tested one instruction late
tickOverLimit_OneLate(v) == v.instructionCount > v.maxInstructions

\* the instruction-limit check of tick
tickOverLimit(v) == v.instructionCount >= v.maxInstructions

\* mutant: a dispatch error sets ERROR without emitting the ERROR event
tick_SilentError(v, gs) ==
    IF tickIgnored(v) THEN Returns(v, gs, Null)
    ELSE IF tickOverLimit(v)
    THEN Throws([v EXCEPT !.state = "ERROR"], gs,
                "Execution stopped: Maximum instruction limit reached", getCurrentLine(v),
                "Possible infinite loop detected. Check your WHILE conditions.")
    ELSE IF v.ip >= Len(v.bytecode)
    THEN Returns(emit([v EXCEPT !.state = "HALTED"], "STATE_CHANGE", [state |-> "HALTED"]),
                 gs, Null)
    ELSE
        LET v1 == saveSnapshot(v, gs)
            instr == v1.bytecode[v1.ip + 1]
            line == getCurrentLine(v1)
            v2 == [v1 EXCEPT !.instructionCount = @ + 1]
            r == executeInstruction(v2, gs, instr, line)
        IN IF r.error = Null THEN r
           ELSE [r EXCEPT !.vm = [r.vm EXCEPT !.state = "ERROR"]]

tick(v, gs) ==
    IF tickIgnored(v) THEN Returns(v, gs, Null)
    ELSE IF tickOverLimit(v)
    THEN Throws([v EXCEPT !.state = "ERROR"], gs,
                "Execution stopped: Maximum instruction limit reached", getCurrentLine(v),
                "Possible infinite loop detected. Check your WHILE conditions.")
    ELSE IF v.ip >= Len(v.bytecode)
    THEN Returns(emit([v EXCEPT !.state = "HALTED"], "STATE_CHANGE", [state |-> "HALTED"]),
                 gs, Null)
    ELSE
        LET v1 == saveSnapshot(v, gs)
            instr == v1.bytecode[v1.ip + 1]
            line == getCurrentLine(v1)
            v2 == [v1 EXCEPT !.instructionCount = @ + 1]
            r == executeInstruction(v2, gs, instr, line)
        IN IF r.error = Null THEN r
           ELSE [r EXCEPT !.vm = emit([r.vm EXCEPT !.state = "ERROR"], "ERROR",
                                      [error |-> r.error.message, line |-> line])]

(***************************************************************************)
(* The driver (js/main.js)                                                 *)
(***************************************************************************)
processAction(gs, action) ==
    CASE action.type = "MOVE" -> executeMove(gs, action.direction).gs
      [] action.type = "TURN" -> executeTurn(gs, action.direction).gs
      [] action.type = "COLLECT" -> executeCollect(gs).gs
      [] action.type = "WAIT" -> executeWait(gs, action.ticks).gs
      [] OTHER -> gs

\* mutant: the driver applies the action but never stops the VM
driverTick_NoStop(r) ==
    IF r.error # Null THEN r
    ELSE LET g1 == IF r.action # Null THEN processAction(r.gs, r.action) ELSE r.gs
         IN [r EXCEPT !.gs = g1]

\* the try block of executeTick and of step after r = vm.tick(): apply the
\* action, check the status and stop the VM; a thrown error is caught and
\* leaves the rest undone
driverTick(r) ==
    IF r.error # Null THEN r
    ELSE LET g1 == IF r.action # Null THEN processAction(r.gs, r.action) ELSE r.gs
             v1 == IF g1.status # "playing" THEN stop(r.vm) ELSE r.vm
         IN [r EXCEPT !.vm = v1, !.gs = g1]

(***************************************************************************)
(* SpecWorld: the simulator under arbitrary calls of its public methods.   *)
(***************************************************************************)
RelDirs == {"forward", "back", "left", "right"}
TurnDirs == {"left", "right"}
ScanDirs == {"forward", "left", "right"}

InitWorld ==
    /\ level \in 1..Len(Levels)
    /\ gameState = NewGameState(Levels[level])
    /\ vm = NewVirtualMachine(Programs[1])
    /\ pre = NoTrace
    /\ saved = NoSnapshot
    /\ atSaved = NoSnapshot
    /\ ret = NoResult
    /\ program = NoProgram
    /\ actions = << >>
    /\ sinceScan = -1
    /\ twin = NoTwin
    /\ lexer = NoLexer
    /\ app = NoApp
    /\ heap = NoHeap

CallMove ==
    \E d \in RelDirs :
        LET r == executeMove(gameState, d) IN
        /\ gameState.stats.ticks < MaxTicks
        /\ gameState' = r.gs
        /\ UNCHANGED <<heap, lexer, app, twin, program, actions, sinceScan, level, vm, pre, saved, atSaved, ret>>

CallTurn ==
    \E d \in TurnDirs :
        LET r == executeTurn(gameState, d) IN
        /\ gameState.stats.ticks < MaxTicks
        /\ gameState' = r.gs
        /\ UNCHANGED <<heap, lexer, app, twin, program, actions, sinceScan, level, vm, pre, saved, atSaved, ret>>

CallCollect ==
    LET r == executeCollect(gameState) IN
    /\ gameState.stats.ticks < MaxTicks
    /\ gameState' = r.gs
    /\ UNCHANGED <<heap, lexer, app, twin, program, actions, sinceScan, level, vm, pre, saved, atSaved, ret>>

CallWait ==
    \E n \in 0..MaxWait :
        LET r == executeWait(gameState, n) IN
        /\ gameState.stats.ticks + n <= MaxTicks
        /\ gameState' = r.gs
        /\ UNCHANGED <<heap, lexer, app, twin, program, actions, sinceScan, level, vm, pre, saved, atSaved, ret>>

CallScan ==
    \E d \in ScanDirs :
        LET r == scan(gameState, d) IN
        /\ gameState' = r.gs
        /\ UNCHANGED <<heap, lexer, app, twin, program, actions, sinceScan, level, vm, pre, saved, atSaved, ret>>

CallSnapshot ==
    /\ gameState.stats.ticks <= MaxSnapshotTick
    /\ saved' = snapshot(gameState)
    /\ atSaved' = [world |-> WorldFields(gameState), restored |-> FALSE]
    /\ UNCHANGED <<heap, lexer, app, twin, program, actions, sinceScan, level, vm, pre, gameState, ret>>

CallRestore ==
    /\ saved # NoSnapshot
    /\ gameState' = restore(gameState, saved)
    /\ atSaved' = [atSaved EXCEPT !.restored = @ \/ (gameState' # gameState)]
    /\ UNCHANGED <<heap, lexer, app, twin, program, actions, sinceScan, level, vm, pre, saved, ret>>

CallReset ==
    /\ gameState' = reset(gameState, Levels[level])
    /\ UNCHANGED <<heap, lexer, app, twin, program, actions, sinceScan, level, vm, pre, saved, atSaved, ret>>

NextWorld ==
    \/ CallMove
    \/ CallTurn
    \/ CallCollect
    \/ CallWait
    \/ CallScan
    \/ CallSnapshot
    \/ CallRestore
    \/ CallReset

SpecWorld == InitWorld /\ [][NextWorld]_vars

\* a call of one of the simulator's action methods
ActionCall == CallMove \/ CallTurn \/ CallCollect \/ CallWait \/ CallScan

(***************************************************************************)
(* Claims about the simulator, checked under SpecWorld.                    *)
(***************************************************************************)

\* C1: in every reachable state the drone's (x, y) lies inside the grid and
\* grid[y][x] is not a wall.
C1_DroneInBoundsOffWall ==
    /\ gameState.drone.x \in 0..(gameState.gridWidth - 1)
    /\ gameState.drone.y \in 0..(gameState.gridHeight - 1)
    /\ gameState.grid[gameState.drone.y][gameState.drone.x] # WALL

\* the drone has moved and now faces a wall tile of the grid
C1_Witness ==
    LET pos == getPositionInDirection(gameState, "forward") IN
    /\ gameState.stats.moves > 0
    /\ isInBounds(gameState, pos.x, pos.y)
    /\ gameState.grid[pos.y][pos.x] = WALL

\* C2: after any sequence of action calls, 0 <= drone.energy <= drone.maxEnergy.
C2_EnergyInRange ==
    /\ gameState.drone.energy >= 0
    /\ gameState.drone.energy <= gameState.drone.maxEnergy

\* the charger was consumed and a later wait met the cap: energy is at maxEnergy
C2_Witness ==
    /\ gameState.levelId = "arena"
    /\ gameState.grid[1][0] = EMPTY
    /\ gameState.stats.ticks > gameState.stats.moves + gameState.stats.turns + gameState.stats.collects
    /\ gameState.drone.energy = gameState.drone.maxEnergy

\* C3 as claimed: once status is won or lost, no call of an action method
\* changes any World field.
C3_NoMutationAfterEnd ==
    [][(gameState.status # "playing" /\ ActionCall) => gameState' = gameState]_vars

\* C5: restore(s) leaves every snapshotted World field equal to its value at
\* the time s was taken, whatever calls happened in between.
C5_RestoreRoundTrip ==
    [][CallRestore => WorldFields(gameState') = atSaved.world]_vars

\* a restore has undone a change made after the snapshot
C5_Witness ==
    /\ saved # NoSnapshot
    /\ atSaved.restored
    /\ WorldFields(gameState) = atSaved.world

(***************************************************************************)
(* SpecCalls: the simulator called method by method, each call's result    *)
(* and the ticks elapsed since the last successful scan being recorded.    *)
(***************************************************************************)
InitCalls ==
    /\ level \in 1..Len(CallLevels)
    /\ gameState = NewGameState(CallLevels[level])
    /\ vm = NewVirtualMachine(Programs[1])
    /\ pre = NoTrace
    /\ saved = NoSnapshot
    /\ atSaved = NoSnapshot
    /\ ret = NoResult
    /\ program = NoProgram
    /\ actions = << >>
    /\ sinceScan = -1
    /\ twin = NoTwin
    /\ lexer = NoLexer
    /\ app = NoApp
    /\ heap = NoHeap

\* the scan history after a call that took the World from gs to g1
elapsed(gs, g1) ==
    IF sinceScan < 0 THEN sinceScan ELSE sinceScan + (g1.stats.ticks - gs.stats.ticks)

DoMove ==
    \E d \in RelDirs :
        \E r \in {executeMove(gameState, d)} :
            /\ gameState.stats.ticks < MaxTicks
            /\ gameState' = r.gs
            /\ ret' = [op |-> "executeMove", arg |-> d, value |-> r.result]
            /\ sinceScan' = elapsed(gameState, r.gs)
            /\ UNCHANGED <<heap, lexer, app, twin, program, actions, level, vm, pre, saved, atSaved>>

DoTurn ==
    \E d \in TurnDirs :
        \E r \in {executeTurn(gameState, d)} :
            /\ gameState.stats.ticks < MaxTicks
            /\ gameState' = r.gs
            /\ ret' = [op |-> "executeTurn", arg |-> d, value |-> r.result]
            /\ sinceScan' = elapsed(gameState, r.gs)
            /\ UNCHANGED <<heap, lexer, app, twin, program, actions, level, vm, pre, saved, atSaved>>

DoCollect ==
    \E r \in {executeCollect(gameState)} :
        /\ gameState.stats.ticks < MaxTicks
        /\ gameState' = r.gs
        /\ ret' = [op |-> "executeCollect", arg |-> "", value |-> r.result]
        /\ sinceScan' = elapsed(gameState, r.gs)
        /\ UNCHANGED <<heap, lexer, app, twin, program, actions, level, vm, pre, saved, atSaved>>

DoWait ==
    \E n \in 0..MaxWait :
        \E r \in {executeWait(gameState, n)} :
            /\ gameState.stats.ticks + n <= MaxTicks
            /\ gameState' = r.gs
            /\ ret' = [op |-> "executeWait", arg |-> n, value |-> r.result]
            /\ sinceScan' = elapsed(gameState, r.gs)
            /\ UNCHANGED <<heap, lexer, app, twin, program, actions, level, vm, pre, saved, atSaved>>

DoScan ==
    \E d \in ScanDirs :
        \E r \in {scan(gameState, d)} :
            /\ gameState' = r.gs
            /\ ret' = [op |-> "scan", arg |-> d, value |-> r.result]
            /\ sinceScan' = IF r.result \in {"cooldown", "no_energy"} THEN sinceScan ELSE 0
            /\ UNCHANGED <<heap, lexer, app, twin, program, actions, level, vm, pre, saved, atSaved>>

\* gameState.reset(level), as resetLevel calls it
DoReset ==
    /\ gameState' = reset(gameState, CallLevels[level])
    /\ ret' = [op |-> "reset", arg |-> "", value |-> ""]
    /\ sinceScan' = -1
    /\ UNCHANGED <<heap, lexer, app, twin, program, actions, level, vm, pre, saved, atSaved>>

NextCalls ==
    \/ DoMove
    \/ DoTurn
    \/ DoCollect
    \/ DoWait
    \/ DoScan
    \/ DoReset

SpecCalls == InitCalls /\ [][NextCalls]_vars

(***************************************************************************)
(* Claims about single calls of the simulator, checked under SpecCalls.    *)
(***************************************************************************)

\* C13: whenever executeMove, executeTurn or executeCollect returns
\* success:false, every World field is unchanged.
C13_FailureChangesNothing ==
    [][(/\ ret'.op \in {"executeMove", "executeTurn", "executeCollect"}
        /\ ~ret'.value.success)
       => gameState' = gameState]_vars

\* after at least one tick a collect found nothing on the drone's tile
C13_Witness ==
    /\ ret.op = "executeCollect"
    /\ ~ret.value.success
    /\ ret.value.reason = "Nothing to collect here"
    /\ gameState.stats.ticks > 0

\* the tile a successful move entered, read from the grid before the move
enteredTile == gameState.grid[gameState'.drone.y][gameState'.drone.x]

\* C14: a successful executeMove from energy e leaves max(0, e - 2 - 10) on a
\* hazard, min(maxEnergy, e - 2 + 20) on a charger, which becomes empty, and
\* e - 2 on any other tile.
C14_MoveEnergy ==
    [][(ret'.op = "executeMove" /\ ret'.value.success) =>
          LET e == gameState.drone.energy IN
          /\ e >= 2
          /\ gameState'.drone.energy =
                CASE enteredTile = HAZARD -> Max(0, e - 2 - 10)
                  [] enteredTile = CHARGER -> Min(gameState.drone.maxEnergy, e - 2 + 20)
                  [] OTHER -> e - 2
          /\ enteredTile = CHARGER =>
                gameState'.grid[gameState'.drone.y][gameState'.drone.x] = EMPTY]_vars

\* a move from fewer than 12 energy entered the hazard and left the drone at 0
C14_Witness ==
    /\ ret.op = "executeMove"
    /\ ret.value.success
    /\ gameState.drone.x = 1 /\ gameState.drone.y = 0
    /\ gameState.levelId = "arena"
    /\ gameState.stats.turns > 0
    /\ gameState.drone.energy = 0

\* every collect objective of the World gs is met by its inventory
objectivesMet(gs) ==
    /\ Len(gs.objectives) > 0
    /\ \A i \in 1..Len(gs.objectives) :
          gs.objectives[i].type = "collect" =>
              inventoryCount(gs, gs.objectives[i].resource) >= gs.objectives[i].count

\* C15: after a successful executeCollect status is won exactly when the level
\* has an objective and every collect objective is met, else it is unchanged;
\* MOVE forward, MOVE forward, COLLECT on the reference grid ends won with
\* energy 93, crystal 1, ticks 3, moves 2, collects 1.
C15_CollectWins ==
    [][(ret'.op = "executeCollect" /\ ret'.value.success) =>
          /\ IF objectivesMet(gameState')
             THEN gameState'.status = "won"
             ELSE gameState'.status = gameState.status
          /\ (/\ gameState.levelId = "level_1"
              /\ gameState.stats = [InitialStats EXCEPT !.ticks = 2, !.moves = 2, !.energyUsed = 4]
              /\ gameState.drone.x = 3)
             => /\ gameState'.status = "won"
                /\ gameState'.drone.energy = 93
                /\ gameState'.inventory.crystal = 1
                /\ gameState'.stats.ticks = 3
                /\ gameState'.stats.moves = 2
                /\ gameState'.stats.collects = 1]_vars

\* the reference run: two moves and a collect have won the first level
C15_Witness ==
    /\ ret.op = "executeCollect"
    /\ ret.value.success
    /\ gameState.levelId = "level_1"
    /\ gameState.stats = [InitialStats EXCEPT !.ticks = 3, !.moves = 2, !.collects = 1,
                                              !.energyUsed = 7]
    /\ gameState.status = "won"

\* C16: scan returns "cooldown" and changes nothing when scanCooldown > 0,
\* else "no_energy" and changes nothing when energy < 1, else it spends 1
\* energy, sets scanCooldown to 3, reveals the target tile and returns its
\* kind; stats.ticks never changes.
C16_ScanContract ==
    [][ret'.op = "scan" =>
          LET pos == getPositionInDirection(gameState, ret'.arg)
              inside == /\ pos.x \in 0..(gameState.gridWidth - 1)
                        /\ pos.y \in 0..(gameState.gridHeight - 1)
          IN
          /\ gameState'.stats.ticks = gameState.stats.ticks
          /\ IF gameState.scanCooldown > 0
             THEN ret'.value = "cooldown" /\ gameState' = gameState
             ELSE IF gameState.drone.energy < 1
             THEN ret'.value = "no_energy" /\ gameState' = gameState
             ELSE /\ gameState'.drone.energy = gameState.drone.energy - 1
                  /\ gameState'.scanCooldown = 3
                  /\ inside => gameState'.revealed[pos.y][pos.x]
                  /\ ret'.value = IF inside THEN gameState.grid[pos.y][pos.x] ELSE WALL
                  /\ gameState'.drone.x = gameState.drone.x
                  /\ gameState'.drone.y = gameState.drone.y
                  /\ gameState'.grid = gameState.grid
                  /\ gameState'.inventory = gameState.inventory
                  /\ gameState'.status = gameState.status]_vars

\* a scan has revealed the data tile in the unrevealed column of the arena
C16_Witness ==
    /\ ret.op = "scan"
    /\ ret.value = DATA
    /\ gameState.revealed[1][3]
    /\ gameState.scanCooldown = 3

\* C17: scanCooldown stays within [0, 3], and after a successful scan every
\* scan call returns "cooldown" until actions and waits have added at least 3
\* to stats.ticks; failed actions add nothing.
C17_CooldownHolds ==
    /\ gameState.scanCooldown \in 0..3
    /\ sinceScan \in 0..2 =>
          \A d \in ScanDirs : scan(gameState, d) = [gs |-> gameState, result |-> "cooldown"]

\* two ticks after a successful scan a scan call was refused
C17_Witness ==
    /\ sinceScan = 2
    /\ ret.op = "scan"
    /\ ret.value = "cooldown"


(***************************************************************************)
(* Spec: a caller of the VM that follows the driver protocol on every tick *)
(* and may call run, pause, stop, reset and rewind(n) at any time.         *)
(***************************************************************************)
\* what a VM snapshot captures: ip, stack, instructionCount and the World
Cur(v, gs) ==
    [ip |-> v.ip, stack |-> v.stack, instructionCount |-> v.instructionCount,
     world |-> gs]

\* the number of ticks executed since the VM was started, or -1 after a rewind
executedTicks == IF pre.clean THEN Len(pre.states) ELSE -1

Init ==
    /\ level \in 1..Len(Levels)
    /\ gameState = NewGameState(Levels[level])
    /\ \E k \in 1..Len(Programs) : vm = NewVirtualMachine(Programs[k])
    /\ pre = NoTrace
    /\ saved = NoSnapshot
    /\ atSaved = NoSnapshot
    /\ ret = NoResult
    /\ program = NoProgram
    /\ actions = << >>
    /\ sinceScan = -1
    /\ twin = NoTwin
    /\ lexer = NoLexer
    /\ app = NoApp
    /\ heap = NoHeap

VmRun ==
    /\ Len(vm.eventLog) < MaxLog
    /\ vm' = run(vm)
    /\ pre' = IF vm.state \in {"HALTED", "ERROR"} THEN NoTrace ELSE pre
    /\ ret' = NoResult
    /\ UNCHANGED <<heap, lexer, app, twin, program, actions, sinceScan, level, gameState, saved, atSaved>>

VmPause ==
    /\ Len(vm.eventLog) < MaxLog
    /\ vm' = pause(vm)
    /\ ret' = NoResult
    /\ UNCHANGED <<heap, lexer, app, twin, program, actions, sinceScan, level, gameState, pre, saved, atSaved>>

VmStop ==
    /\ Len(vm.eventLog) < MaxLog
    /\ vm' = stop(vm)
    /\ ret' = NoResult
    /\ UNCHANGED <<heap, lexer, app, twin, program, actions, sinceScan, level, gameState, pre, saved, atSaved>>

VmReset ==
    /\ vm' = reset_vm(vm)
    /\ pre' = NoTrace
    /\ ret' = NoResult
    /\ UNCHANGED <<heap, lexer, app, twin, program, actions, sinceScan, level, gameState, saved, atSaved>>

Tick ==
    \E t \in {tick(vm, gameState)} :
        \E r \in {driverTick(t)} :
            /\ gameState.stats.ticks < MaxTicks
            /\ Len(vm.eventLog) < MaxLog
            /\ vm' = r.vm
            /\ gameState' = r.gs
            /\ pre' = IF pre.clean /\ r.vm.instructionCount = vm.instructionCount + 1
                      THEN [pre EXCEPT !.states = Append(@, Cur(vm, gameState))]
                      ELSE pre
            /\ ret' = [op |-> "tick", from |-> vm.state, value |-> r.action, error |-> r.error]
            /\ UNCHANGED <<heap, lexer, app, twin, program, actions, sinceScan, level, saved, atSaved>>

VmRewind ==
    \E n \in 0..MaxRewind :
        \E r \in {rewind(vm, gameState, n)} :
            /\ Len(vm.eventLog) < MaxLog
            /\ vm' = r.vm
            /\ gameState' = r.gs
            /\ pre' = IF r.result THEN [clean |-> FALSE, states |-> << >>] ELSE pre
            /\ ret' = [op |-> "rewind", steps |-> n, ticks |-> executedTicks,
                       value |-> r.result, undone |-> r.gs # gameState]
            /\ UNCHANGED <<heap, lexer, app, twin, program, actions, sinceScan, level, saved, atSaved>>

Next ==
    \/ VmRun
    \/ VmPause
    \/ VmStop
    \/ VmReset
    \/ Tick
    \/ VmRewind

Spec == Init /\ [][Next]_vars

(***************************************************************************)
(* SpecRun: one run of the driver, without rewind and without reset.       *)
(***************************************************************************)
\* run() on a VM that is READY or PAUSED (main.js run)
DriverRun == vm.state \in {"READY", "PAUSED"} /\ VmRun

NextRun ==
    \/ DriverRun
    \/ VmPause
    \/ VmStop
    \/ Tick

SpecRun == Init /\ [][NextRun]_vars

(***************************************************************************)
(* Claims about the VM and the driver.                                     *)
(***************************************************************************)

\* C4: in one run under the driver protocol, without rewind or reset, once
\* status is won no later step changes status or any inventory count
\* (checked under SpecRun).
C4_WonIsFinal ==
    [][gameState.status = "won" =>
          /\ gameState'.status = "won"
          /\ gameState'.inventory = gameState.inventory]_vars

\* the level is won, the driver has stopped the VM and a later tick was made
C4_Witness ==
    /\ gameState.status = "won"
    /\ vm.state = "HALTED"
    /\ ret.op = "tick"
    /\ ret.from = "HALTED"

\* C6: after K executed ticks of a freshly started VM, K within the history
\* size, rewind(K) returns true, leaves ip, stack, instructionCount and the
\* World as they were before the first tick and keeps every logged event.
C6_RewindAllTicks ==
    [][(/\ ret'.op = "rewind"
        /\ executedTicks >= 1
        /\ executedTicks <= maxHistorySize
        /\ ret'.steps = executedTicks)
       => (/\ ret'.value = TRUE
           /\ Cur(vm', gameState') = pre.states[1]
           /\ Len(vm'.eventLog) >= Len(vm.eventLog)
           /\ SubSeq(vm'.eventLog, 1, Len(vm.eventLog)) = vm.eventLog)]_vars

\* rewind(K) was called after K >= 2 executed ticks that changed the World
C6_Witness ==
    /\ ret.op = "rewind"
    /\ ret.ticks >= 2
    /\ ret.steps = ret.ticks
    /\ ret.value = TRUE
    /\ ret.undone

\* C7 as claimed: after K >= 1 executed ticks rewind(1) restores ip, stack,
\* instructionCount and the World to the state just before the most recently
\* executed tick.
C7_RewindOneUndoesOneTick ==
    [][(/\ ret'.op = "rewind"
        /\ ret'.steps = 1
        /\ executedTicks >= 1
        /\ executedTicks <= maxHistorySize)
       => Cur(vm', gameState') = pre.states[Len(pre.states)]]_vars

C9_LimitErrorIsLogged ==
    [][(/\ ret'.op = "tick"
        /\ ~tickIgnored(vm)
        /\ tickOverLimit(vm))
       => (/\ vm'.state = "ERROR"
           /\ ret'.error # Null
           /\ ret'.error.hint = "Possible infinite loop detected. Check your WHILE conditions."
           /\ vm'.instructionCount = vm.instructionCount
           /\ vm'.ip = vm.ip
           /\ vm'.stack = vm.stack
           /\ vm'.history = vm.history
           /\ gameState' = gameState
           /\ Len(vm'.eventLog) > 0
           /\ vm'.eventLog[Len(vm'.eventLog)].type = "ERROR")]_vars

\* C10: in HALTED and in ERROR, tick() returns null and leaves the VM (ip,
\* stack, instructionCount, history, event log, state) and the World unchanged.
C10_HaltedErrorAbsorbing ==
    vm.state \in {"HALTED", "ERROR"} => tick(vm, gameState) = Returns(vm, gameState, Null)

\* a tick was called on a VM in ERROR and the VM is still in ERROR
C10_Witness ==
    /\ ret.op = "tick"
    /\ ret.from = "ERROR"
    /\ ret.value = Null
    /\ vm.state = "ERROR"

(***************************************************************************)
(* Spec: the driver compiles a source program and runs it to its end       *)
(* (AutoDroneApp.run and executeTick in js/main.js).                       *)
(***************************************************************************)
\* the condition expressions of the source programs
CondEnergyHigh == BinaryExpression(">", Identifier("energy", 1), Literal(Num(50), 1), 1)
CondEnergyFull == BinaryExpression(">", Identifier("energy", 1), Literal(Num(97), 1), 1)
CondScanEmpty ==
    BinaryExpression("==", CallExpression(Identifier("Scan", 1), << >>, 1),
                     Literal(Str("empty"), 1), 1)
CondNoCrystal ==
    UnaryExpression("not", MemberExpression(Identifier("inventory", 1), "crystal", 1), 1)
CondFalse == Identifier("false", 1)
CondTrue == Identifier("true", 1)

\* statement lists without control flow, on lines 2 and 3
StraightBodies ==
    { << >>,
      <<MoveStatement("forward", 2)>>,
      <<TurnStatement("left", 2), WaitStatement(1, 3)>> }

\* S1: MOVE forward, MOVE forward, COLLECT
SrcS1 == Program(<<MoveStatement("forward", 1), MoveStatement("forward", 2), CollectStatement(3)>>)

\* S3: LOOP 3: MOVE forward END
SrcS3 == Program(<<LoopStatement(3, Block(<<MoveStatement("forward", 2)>>), 1)>>)

LoopCounts == (0..MaxLoop) \cup {11}

\* LOOP count: body END, then COLLECT
LoopSources ==
    { Program(<<LoopStatement(c, Block(b), 1), CollectStatement(5)>>) :
        c \in LoopCounts, b \in StraightBodies }

\* WAIT n alone, and WAIT n after a scan has started the cooldown
WaitSources ==
    { Program(<<WaitStatement(n, 1)>>) : n \in 0..MaxWait } \cup
    { Program(<<LogStatement(CallExpression(Identifier("Scan", 1), << >>, 1), 1),
                WaitStatement(n, 2), CollectStatement(3)>>) : n \in 0..MaxWait }

\* the bodies of ELSE blocks, on lines 6 and 7
ElseBodies ==
    { << >>,
      <<MoveStatement("back", 6)>>,
      <<TurnStatement("right", 6), CollectStatement(7)>> }

\* the alternates of an IF: none, ELSE blocks, and ELIF chains of one and of
\* two links, with and without a final ELSE
Alternates ==
    {NoNode} \cup { Block(b) : b \in ElseBodies } \cup
    { IfStatement(c, Block(<<TurnStatement("right", 5)>>), a, 4) :
        c \in {CondNoCrystal, CondFalse},
        a \in {NoNode, Block(<<WaitStatement(2, 7)>>),
               IfStatement(CondEnergyFull, Block(<<MoveStatement("back", 7)>>),
                           Block(<<TurnStatement("left", 8)>>), 6)} }

IfSources ==
    { Program(<<IfStatement(c, Block(b), a, 1), CollectStatement(9)>>) :
        c \in {CondEnergyHigh, CondScanEmpty, CondFalse}, b \in StraightBodies,
        a \in Alternates }

WhileSources ==
    { Program(<<WhileStatement(c, Block(b), 1), CollectStatement(5)>>) :
        c \in {CondEnergyFull, CondTrue, CondFalse}, b \in StraightBodies }

\* control flow inside control flow
NestedSources ==
    { Program(<<WhileStatement(CondEnergyFull,
                               Block(<<IfStatement(CondScanEmpty,
                                                   Block(<<MoveStatement("forward", 3)>>),
                                                   Block(<<TurnStatement("right", 5)>>), 2)>>),
                               1),
                CollectStatement(7)>>),
      Program(<<LoopStatement(2, Block(<<LoopStatement(2, Block(<<TurnStatement("left", 3)>>), 2)>>),
                              1),
                CollectStatement(6)>>) }

\* TURN left, TURN left, MOVE forward
SrcTurns == Program(<<TurnStatement("left", 1), TurnStatement("left", 2), MoveStatement("forward", 3)>>)

Sources ==
    {SrcS1, SrcS3, SrcTurns} \cup LoopSources \cup WaitSources \cup IfSources \cup WhileSources \cup
    NestedSources

\* the instruction budget the driver gives the VM (10000 in main.js)
RunBudget == 24

\* this.vm before the first run
NoVm == [NewVirtualMachine(<< >>) EXCEPT !.state = "NONE"]

InitProg ==
    /\ level \in 1..Len(Levels)
    /\ gameState = NewGameState(Levels[level])
    /\ vm = NoVm
    /\ program \in Sources
    /\ actions = << >>
    /\ pre = NoTrace
    /\ saved = NoSnapshot
    /\ atSaved = NoSnapshot
    /\ ret = NoResult
    /\ sinceScan = -1
    /\ twin = NoTwin
    /\ lexer = NoLexer
    /\ app = NoApp
    /\ heap = NoHeap

\* run(): unless paused, reset the level, compile the code, create the VM, start it
RunProgram ==
    \E bytecode \in {compile(program)} :
        /\ vm.state # "PAUSED"
        /\ gameState' = NewGameState(Levels[level])
        /\ vm' = run([NewVirtualMachine(bytecode.instructions)
                        EXCEPT !.maxInstructions = RunBudget])
        /\ actions' = << >>
        /\ ret' = NoResult
        /\ pre' = NoTrace
        /\ UNCHANGED <<heap, lexer, app, twin, program, level, saved, atSaved, sinceScan>>

\* executeTick(): one VM tick, the returned action applied to the World; pre
\* records every call, also those that execute no instruction
ProgTick ==
    \E t \in {tick(vm, gameState)} :
        \E r \in {driverTick(t)} :
            /\ vm.state = "RUNNING"
            /\ vm' = r.vm
            /\ gameState' = r.gs
            /\ actions' = IF r.action # Null THEN Append(actions, r.action) ELSE actions
            /\ ret' = [op |-> "tick", from |-> vm.state, value |-> r.action, error |-> r.error]
            /\ pre' = [pre EXCEPT !.states = Append(@, Cur(vm, gameState))]
            /\ UNCHANGED <<heap, lexer, app, twin, program, level, saved, atSaved, sinceScan>>

NextProg ==
    \/ RunProgram
    \/ ProgTick

SpecProg == InitProg /\ [][NextProg]_vars

\* the VM has run the compiled program to its final HALT
ranToEnd ==
    /\ vm.state = "HALTED"
    /\ vm.ip = Len(vm.bytecode) - 1
    /\ vm.bytecode = compile(program).instructions
    /\ ret # NoResult
    /\ ret.error = Null

\* the action a statement without control flow asks of the World
actionOf(stmt) ==
    CASE stmt.type = "MoveStatement" ->
            [type |-> "MOVE", direction |-> stmt.direction, line |-> stmt.line]
      [] stmt.type = "TurnStatement" ->
            [type |-> "TURN", direction |-> stmt.direction, line |-> stmt.line]
      [] stmt.type = "CollectStatement" -> [type |-> "COLLECT", line |-> stmt.line]
      [] stmt.type = "WaitStatement" ->
            [type |-> "WAIT", ticks |-> stmt.ticks, line |-> stmt.line]

actionsOf(statements) == [k \in 1..Len(statements) |-> actionOf(statements[k])]

RECURSIVE repeated(_, _)
repeated(acts, n) == IF n <= 0 THEN << >> ELSE acts \o repeated(acts, n - 1)

\* a LOOP over a body without control flow, followed by one plain statement
isPlainLoop ==
    /\ program.type = "Program"
    /\ Len(program.body) = 2
    /\ program.body[1].type = "LoopStatement"
    /\ Block(program.body[1].body.statements) \in { Block(b) : b \in StraightBodies }

\* C11: a Loop{count, body}, compiled and run to the end, has executed the
\* actions of body exactly max(0, count) times in order, for every count
\* (above 10 too), and then the statement after the loop.
C11_LoopRunsBodyCountTimes ==
    (isPlainLoop /\ ranToEnd) =>
        actions = repeated(actionsOf(program.body[1].body.statements),
                           Max(0, program.body[1].count))
                  \o <<actionOf(program.body[2])>>

\* C12: S3 on the reference grid ends with the drone at (3,1) and 94 energy,
\* two moves made and the third blocked by the east wall.
C12_S3EndsAtThreeOne ==
    (program = SrcS3 /\ level = 1 /\ ranToEnd) =>
        /\ gameState.drone.x = 3
        /\ gameState.drone.y = 1
        /\ gameState.drone.energy = 94
        /\ gameState.stats.moves = 2
        /\ Len(actions) = 3

\* a tick of the driver has just returned a WAIT action
waitApplied == ret.op = "tick" /\ ret.value # Null /\ ret.value.type = "WAIT"

\* C18: a Wait statement of n ticks (n >= 0, 0 included), once compiled,
\* ticked and applied, raises stats.ticks by exactly n, the energy by
\* min(n, maxEnergy - energy), and lowers scanCooldown by n with floor 0.
C18_WaitAdvancesByN ==
    [][waitApplied' =>
        \A k \in 1..Len(program.body) :
            (program.body[k].type = "WaitStatement" /\ program.body[k].line = ret'.value.line)
            => LET n == program.body[k].ticks IN
               /\ gameState'.stats.ticks = gameState.stats.ticks + n
               /\ gameState'.drone.energy =
                      gameState.drone.energy
                      + Min(n, gameState.drone.maxEnergy - gameState.drone.energy)
               /\ gameState'.scanCooldown = Max(0, gameState.scanCooldown - n)]_vars

\* the bytecode the VM was created with
compiledCode == vm.bytecode

\* C19: the compiled array ends with HALT, and every JUMP, JIF and JIT has
\* a patched target inside [0, length - 1]: a JIF points past itself, and
\* only the closing JUMP of a WHILE that opens the program points at 0.
C19_HaltLastJumpsPatched ==
    vm.state # "NONE" =>
        LET n == Len(compiledCode) IN
        /\ compiledCode = compile(program).instructions
        /\ n >= 1
        /\ compiledCode[n].op = "HALT"
        /\ \A i \in 1..n :
              compiledCode[i].op \in {"JUMP", "JIF", "JIT"} =>
                  /\ compiledCode[i].arg \in 0..(n - 1)
                  /\ compiledCode[i].op = "JIF" => compiledCode[i].arg > i - 1
                  /\ compiledCode[i].arg = 0 =>
                        /\ compiledCode[i].op = "JUMP"
                        /\ program.body[1].type = "WhileStatement"

\* an IF with an ELIF and an ELSE has been compiled and run to its end
C19_Witness ==
    /\ ranToEnd
    /\ program.body[1].type = "IfStatement"
    /\ program.body[1].alternate.type = "IfStatement"
    /\ program.body[1].alternate.alternate # NoNode
    /\ Cardinality({i \in 1..Len(compiledCode) : compiledCode[i].op = "JIF"}) = 2
    /\ Cardinality({i \in 1..Len(compiledCode) : compiledCode[i].op = "JUMP"}) = 2

\* C20: every instruction emitted for a node of the tree with line > 0 has
\* an entry in the sourceMap, the jumps, counter pushes and pops of IF, WHILE
\* and LOOP included; only the final HALT has none.
C20_EveryInstructionMapped ==
    vm.state # "NONE" =>
        \A i \in 0..(Len(compiledCode) - 2) : i \in DOMAIN compile(program).sourceMap

(***************************************************************************)
(* Spec: the control operations of the VM, each call recorded in ret, on   *)
(* programs that also raise every runtime error of the dispatch.           *)
(***************************************************************************)
\* the identifiers LOG <name> is compiled for
LoadNames ==
    {"energy", "ENERGY", "Energy", "x", "y", "facing", "inventory", "true", "True", "TRUE",
     "false", "foo", "e", "energy2", "scan", "__counter__"}

\* LOG <name>
LoadSources == { Program(<<LogStatement(Identifier(n, 1), 1)>>) : n \in LoadNames }

\* LOG foo(), LOG energy.foo, LOG inventory.crystal
ErrSources ==
    { Program(<<MoveStatement("forward", 1),
                LogStatement(CallExpression(Identifier("foo", 2), << >>, 2), 2)>>),
      Program(<<LogStatement(MemberExpression(Identifier("energy", 1), "foo", 1), 1)>>),
      Program(<<LogStatement(MemberExpression(Identifier("inventory", 1), "crystal", 1), 1)>>) }

\* bytecode no source compiles to: pops on an empty stack, an unknown opcode
RawCodes ==
    { <<Instruction("POP", Null, 1), Instruction("HALT", Null, 0)>>,
      <<Instruction("PUSH", Num(1), 1), Instruction("ADD", Null, 2),
        Instruction("HALT", Null, 0)>>,
      <<Instruction("JIF", 0, 1), Instruction("HALT", Null, 0)>>,
      <<Instruction("TURN", "left", 1), Instruction("BOGUS", Null, 2),
        Instruction("HALT", Null, 0)>> }

CtlCodes ==
    { Programs[k] : k \in 1..Len(Programs) } \cup
    { compile(s).instructions : s \in LoadSources \cup ErrSources } \cup RawCodes

InitCtl ==
    /\ level \in 1..Len(Levels)
    /\ gameState = NewGameState(Levels[level])
    /\ vm \in { NewVirtualMachine(code) : code \in CtlCodes }
    /\ pre = NoTrace
    /\ saved = NoSnapshot
    /\ atSaved = NoSnapshot
    /\ ret = NoResult
    /\ program = NoProgram
    /\ actions = << >>
    /\ sinceScan = -1
    /\ twin = NoTwin
    /\ lexer = NoLexer
    /\ app = NoApp
    /\ heap = NoHeap

CtlRun ==
    /\ Len(vm.eventLog) < MaxLog
    /\ vm' = run(vm)
    /\ ret' = [op |-> "run", from |-> vm.state]
    /\ UNCHANGED <<heap, lexer, app, twin, program, actions, sinceScan, level, gameState, pre, saved, atSaved>>

CtlPause ==
    /\ Len(vm.eventLog) < MaxLog
    /\ vm' = pause(vm)
    /\ ret' = [op |-> "pause", from |-> vm.state]
    /\ UNCHANGED <<heap, lexer, app, twin, program, actions, sinceScan, level, gameState, pre, saved, atSaved>>

CtlStop ==
    /\ Len(vm.eventLog) < MaxLog
    /\ vm' = stop(vm)
    /\ ret' = [op |-> "stop", from |-> vm.state]
    /\ UNCHANGED <<heap, lexer, app, twin, program, actions, sinceScan, level, gameState, pre, saved, atSaved>>

CtlReset ==
    /\ vm' = reset_vm(vm)
    /\ ret' = [op |-> "reset", from |-> vm.state]
    /\ UNCHANGED <<heap, lexer, app, twin, program, actions, sinceScan, level, gameState, pre, saved, atSaved>>

CtlTick ==
    \E t \in {tick(vm, gameState)} :
        \E r \in {driverTick(t)} :
            /\ gameState.stats.ticks < MaxTicks
            /\ Len(vm.eventLog) < MaxLog
            /\ vm' = r.vm
            /\ gameState' = r.gs
            /\ ret' = [op |-> "tick", from |-> vm.state, value |-> r.action, error |-> r.error]
            /\ UNCHANGED <<heap, lexer, app, twin, program, actions, sinceScan, level, pre, saved, atSaved>>

CtlRewind ==
    \E n \in 0..MaxRewind :
        \E r \in {rewind(vm, gameState, n)} :
            /\ Len(vm.eventLog) < MaxLog
            /\ vm' = r.vm
            /\ gameState' = r.gs
            /\ ret' = [op |-> "rewind", from |-> vm.state, value |-> r.result]
            /\ UNCHANGED <<heap, lexer, app, twin, program, actions, sinceScan, level, pre, saved, atSaved>>

NextCtl ==
    \/ CtlRun
    \/ CtlPause
    \/ CtlStop
    \/ CtlReset
    \/ CtlTick
    \/ CtlRewind

SpecCtl == InitCtl /\ [][NextCtl]_vars

\* the last entry of the event log
lastEvent(v) == v.eventLog[Len(v.eventLog)]

\* C22: run() from READY or PAUSED sets RUNNING and keeps ip, stack, history
\* and the entries of the log; run() from HALTED or ERROR clears ip, stack,
\* instructionCount, history and log before it sets RUNNING; pause() changes
\* the state, to PAUSED, only when RUNNING and changes nothing otherwise;
\* stop() gives HALTED from any state; reset() gives READY with ip 0, empty
\* stack, history and log, and instructionCount 0.
C22_ControlTransitions ==
    [][/\ (ret'.op = "run" /\ vm.state \in {"READY", "PAUSED"}) =>
             /\ vm'.state = "RUNNING"
             /\ vm'.ip = vm.ip
             /\ vm'.stack = vm.stack
             /\ vm'.history = vm.history
             /\ vm'.instructionCount = vm.instructionCount
             /\ SubSeq(vm'.eventLog, 1, Len(vm.eventLog)) = vm.eventLog
       /\ (ret'.op = "run" /\ vm.state \in {"HALTED", "ERROR"}) =>
             /\ vm'.state = "RUNNING"
             /\ vm'.ip = 0
             /\ vm'.stack = << >>
             /\ vm'.instructionCount = 0
             /\ vm'.history = << >>
             /\ vm'.eventLog =
                    <<[type |-> "STATE_CHANGE", data |-> [state |-> "RUNNING"], tick |-> 0]>>
       /\ (ret'.op = "pause" /\ vm.state = "RUNNING") =>
             vm' = [vm EXCEPT !.state = "PAUSED", !.eventLog = vm'.eventLog]
       /\ (ret'.op = "pause" /\ vm.state # "RUNNING") => vm' = vm
       /\ ret'.op = "stop" => vm'.state = "HALTED"
       /\ ret'.op = "reset" =>
             /\ vm'.state = "READY"
             /\ vm'.ip = 0
             /\ vm'.stack = << >>
             /\ vm'.history = << >>
             /\ vm'.eventLog = << >>
             /\ vm'.instructionCount = 0]_vars

\* run() has restarted a VM that had halted after moving the drone
C22_Witness ==
    /\ ret.op = "run"
    /\ ret.from = "HALTED"
    /\ vm.state = "RUNNING"
    /\ vm.instructionCount = 0
    /\ gameState.stats.moves > 0

\* the last tick threw an error raised by the dispatch of an instruction
dispatchError ==
    /\ ret.op = "tick"
    /\ ret.error # Null
    /\ ret.error.message # "Execution stopped: Maximum instruction limit reached"

\* C23: when the dispatch of an instruction raises a runtime error the VM
\* state becomes ERROR, an ERROR event with that instruction's line is the
\* last entry of the log, the error reaches the caller, and ip still
\* addresses the faulting instruction.
C23_DispatchErrorHalts ==
    [][dispatchError' =>
          /\ vm'.state = "ERROR"
          /\ vm'.ip = vm.ip
          /\ Len(vm'.eventLog) > 0
          /\ lastEvent(vm').type = "ERROR"
          /\ lastEvent(vm').data.line = vm.bytecode[vm.ip + 1].line
          /\ lastEvent(vm').data.error = ret'.error.message
          /\ ret'.error.line = vm.bytecode[vm.ip + 1].line
          /\ getCurrentLine(vm') = vm.bytecode[vm.ip + 1].line]_vars

\* an unknown function was called on line 2, after a move
C23_Witness ==
    /\ dispatchError
    /\ ret.error.message = "Unknown function"
    /\ vm.state = "ERROR"
    /\ vm.ip = 1
    /\ lastEvent(vm).data.line = 2

\* the names the claim lists as loadable
listedNames == {"energy", "x", "y", "facing", "inventory", "true", "false"}

\* C24: LOAD(name) pushes a value only when name is, case-insensitively,
\* one of energy, x, y, facing, inventory, true, false; for every other
\* name the tick raises the unknown-identifier error, the VM enters ERROR
\* and nothing is pushed.
C24_LoadKnownNamesOnly ==
    [][(/\ ret'.op = "tick"
        /\ vm.state \in {"RUNNING", "PAUSED"}
        /\ ~tickOverLimit(vm)
        /\ vm.ip < Len(vm.bytecode)
        /\ vm.bytecode[vm.ip + 1].op = "LOAD") =>
          IF toLowerCase(vm.bytecode[vm.ip + 1].arg) \in listedNames
          THEN /\ ret'.error = Null
               /\ Len(vm'.stack) = Len(vm.stack) + 1
          ELSE /\ ret'.error # Null
               /\ ret'.error.message = "Unknown variable"
               /\ vm'.state = "ERROR"
               /\ vm'.stack = vm.stack]_vars

\* C28: tick, pause, stop and rewind never remove, reorder or modify the
\* entries of the event log; each new event is appended at the end with its
\* tick field equal to instructionCount at the moment of emission.
C28_LogAppendOnly ==
    [][ret'.op \in {"tick", "pause", "stop", "rewind"} =>
          /\ Len(vm'.eventLog) >= Len(vm.eventLog)
          /\ SubSeq(vm'.eventLog, 1, Len(vm.eventLog)) = vm.eventLog
          /\ \A i \in (Len(vm.eventLog) + 1)..Len(vm'.eventLog) :
                vm'.eventLog[i].tick = vm'.instructionCount]_vars

\* a rewind has appended its event, stamped with the restored count, after
\* an event of a later tick
C28_Witness ==
    /\ ret.op = "rewind"
    /\ ret.value
    /\ Len(vm.eventLog) >= 2
    /\ lastEvent(vm).tick = vm.instructionCount
    /\ vm.eventLog[Len(vm.eventLog) - 1].tick > vm.instructionCount

\* C29: a tick that executes an instruction appends exactly one snapshot of
\* (ip, stack, instructionCount, World) taken before the dispatch; the
\* history never holds more than maxHistorySize snapshots and at capacity
\* the oldest one is dropped; other ticks leave the history alone.
C29_OneSnapshotPerTick ==
    [][ret'.op = "tick" =>
          IF vm'.instructionCount = vm.instructionCount + 1
          THEN LET snap == [ip |-> vm.ip, stack |-> vm.stack,
                            instructionCount |-> vm.instructionCount,
                            gameState |-> snapshot(gameState)]
               IN /\ Len(vm'.history) <= maxHistorySize
                  /\ vm'.history = IF Len(vm.history) < maxHistorySize
                                   THEN Append(vm.history, snap)
                                   ELSE Append(Tail(vm.history), snap)
          ELSE vm'.history = vm.history]_vars

\* a tick at capacity has dropped the snapshot taken before the first tick
C29_Witness ==
    /\ ret.op = "tick"
    /\ Len(vm.history) = maxHistorySize
    /\ vm.history[1].instructionCount = 1
    /\ vm.instructionCount = maxHistorySize + 1

(***************************************************************************)
(* AnalysisEngine (js/analysis.js): the score of a run and its stars.      *)
(***************************************************************************)
\* this.weights
weights == [energyEfficiency |-> 40, stepEfficiency |-> 30, timeBonus |-> 20,
            completionBonus |-> 10]

\* optimalEnergy, optimalSteps and timeLimit of the levels (0: not given)
optimalOf ==
    << [optimalEnergy |-> 7, optimalSteps |-> 3, timeLimit |-> 20],
       [optimalEnergy |-> 0, optimalSteps |-> 0, timeLimit |-> 0] >>

\* Math.round(n / d * w) for n >= 0, d > 0: the nearest integer; at an exact
\* half the floating-point product may fall on either side
rounded(n, d, w) ==
    LET q == (n * w) \div d
        r2 == 2 * ((n * w) % d)
    IN IF r2 < d THEN {q} ELSE IF r2 > d THEN {q + 1} ELSE {q, q + 1}

\* mutant: five stars only above 90
starsOf_AboveNinety(score) ==
    IF score > 90 THEN 5
    ELSE IF score >= 75 THEN 4
    ELSE IF score >= 60 THEN 3
    ELSE IF score >= 40 THEN 2
    ELSE IF score >= 20 THEN 1
    ELSE 0

\* the star rating of analyze
starsOf(score) ==
    IF score >= 90 THEN 5
    ELSE IF score >= 75 THEN 4
    ELSE IF score >= 60 THEN 3
    ELSE IF score >= 40 THEN 2
    ELSE IF score >= 20 THEN 1
    ELSE 0

\* hasConsecutiveTurns(eventLog): two ACTION events of type TURN, one next to
\* the other in the log
hasConsecutiveTurns(eventLog) ==
    \E i \in 1..(Len(eventLog) - 1) :
        /\ eventLog[i].type = "ACTION" /\ eventLog[i].data.type = "TURN"
        /\ eventLog[i + 1].type = "ACTION" /\ eventLog[i + 1].data.type = "TURN"

\* analyze(gameState, eventLog, levelData): the possible {score, stars}
analyze(gs, levelData) ==
    LET stats == gs.stats
        optimalEnergy == OrNum(levelData.optimalEnergy, stats.energyUsed)
        optimalSteps == OrNum(levelData.optimalSteps, stats.ticks)
        timeScore == Max(0, weights.timeBonus - (stats.ticks \div 10))
        completionScore == IF gs.status = "won" THEN weights.completionBonus ELSE 0
    IN { [score |-> Min(weights.energyEfficiency, energyScore)
                    + Min(weights.stepEfficiency, stepScore) + timeScore + completionScore,
          stars |-> starsOf(Min(weights.energyEfficiency, energyScore)
                            + Min(weights.stepEfficiency, stepScore) + timeScore
                            + completionScore)] :
           energyScore \in rounded(optimalEnergy, Max(1, stats.energyUsed),
                                   weights.energyEfficiency),
           stepScore \in rounded(optimalSteps, Max(1, stats.ticks), weights.stepEfficiency) }

(***************************************************************************)
(* Spec: the analyzer applied to the statistics of a finished run.         *)
(***************************************************************************)
\* the largest stats.ticks of the runs analyzed
MaxSteps == 210

\* the values of stats.energyUsed of the runs analyzed
UsedValues == {0, 2, 5, 7, 8, 9, 10, 12, 14, 20, 28, 40, 100, 300}

InitStars ==
    /\ level \in 1..Len(Levels)
    /\ \E used \in UsedValues, t \in 0..MaxSteps, st \in {"won", "lost", "playing"} :
          /\ used <= 3 * t
          /\ st = "won" => (used >= 5 /\ t >= 2)
          /\ gameState = [NewGameState(Levels[level])
                             EXCEPT !.stats.energyUsed = used, !.stats.ticks = t,
                                    !.status = st]
    /\ vm = NewVirtualMachine(Programs[1])
    /\ pre = NoTrace
    /\ saved = NoSnapshot
    /\ atSaved = NoSnapshot
    /\ ret = NoResult
    /\ program = NoProgram
    /\ actions = << >>
    /\ sinceScan = -1
    /\ twin = NoTwin
    /\ lexer = NoLexer
    /\ app = NoApp
    /\ heap = NoHeap

Analyze ==
    /\ ret = NoResult
    /\ \E result \in analyze(gameState, optimalOf[level]) :
          ret' = [op |-> "analyze", score |-> result.score, stars |-> result.stars]
    /\ UNCHANGED <<heap, lexer, app, twin, level, gameState, vm, pre, saved, atSaved, program, actions, sinceScan>>

NextStars == Analyze

SpecStars == InitStars /\ [][NextStars]_vars

\* C25: the star rating is a step function of the score: 5 iff score >= 90,
\* 4 iff 75 <= score < 90, 3 iff 60 <= score < 75, 2 iff 40 <= score < 60,
\* 1 iff 20 <= score < 40, 0 iff score < 20.
C25_StarsStepFunction ==
    ret.op = "analyze" =>
        /\ ret.stars \in 0..5
        /\ ret.stars = 5 <=> ret.score >= 90
        /\ ret.stars = 4 <=> (75 <= ret.score /\ ret.score < 90)
        /\ ret.stars = 3 <=> (60 <= ret.score /\ ret.score < 75)
        /\ ret.stars = 2 <=> (40 <= ret.score /\ ret.score < 60)
        /\ ret.stars = 1 <=> (20 <= ret.score /\ ret.score < 40)
        /\ ret.stars = 0 <=> ret.score < 20

\* a run scored exactly 90 has been given five stars
C25_Witness == ret.op = "analyze" /\ ret.score = 90 /\ ret.stars = 5

(***************************************************************************)
(* The two syntax families: the statements of Parser (js/parser.js) and of *)
(* CppParser, from the tokens of one statement to its node of the tree.    *)
(***************************************************************************)
\* the tokens of one plain statement of each family
Token(kw, arg, ticks) == [kw |-> kw, arg |-> arg, ticks |-> ticks]
CppToken(fn, ticks) == [fn |-> fn, ticks |-> ticks]

\* Parser.parseStatement for MOVE, TURN, COLLECT, WAIT; tok.arg is the
\* direction token, tok.ticks the NUMBER after WAIT (-1 when there is none)
parseStatement(tok, line) ==
    CASE tok.kw = "MOVE" ->
            MoveStatement(IF tok.arg = "forward" THEN "forward" ELSE "back", line)
      [] tok.kw = "TURN" -> TurnStatement(IF tok.arg = "left" THEN "left" ELSE "right", line)
      [] tok.kw = "COLLECT" -> CollectStatement(line)
      [] tok.kw = "WAIT" -> WaitStatement(IF tok.ticks < 0 THEN 1 ELSE tok.ticks, line)

\* CppParser.parseStatement for move_forward(), move_back(), turn_left(),
\* turn_right(), collect(), wait(n)
cppParseStatement(tok, line) ==
    CASE tok.fn \in {"move_forward", "move_back"} ->
            MoveStatement(IF tok.fn = "move_forward" THEN "forward" ELSE "back", line)
      [] tok.fn \in {"turn_left", "turn_right"} ->
            TurnStatement(IF tok.fn = "turn_left" THEN "left" ELSE "right", line)
      [] tok.fn = "collect" -> CollectStatement(line)
      [] tok.fn = "wait" -> WaitStatement(IF tok.ticks < 0 THEN 1 ELSE tok.ticks, line)

\* parseBlock of either parser: the statements on consecutive lines from `line`
parseBlock(toks, line) == [k \in 1..Len(toks) |-> parseStatement(toks[k], line + k - 1)]
cppParseBlock(toks, line) == [k \in 1..Len(toks) |-> cppParseStatement(toks[k], line + k - 1)]

\* Parser.parseLoopStatement: LOOP count: body END
parseLoopStatement(count, toks, line) == LoopStatement(count, Block(parseBlock(toks, line + 1)), line)

\* mutant: the loop count is the end value
parseForStatement_CountsEnd(startVal, endVal, toks, line) ==
    LoopStatement(endVal, Block(cppParseBlock(toks, line + 2)), line)

\* CppParser.parseForStatement: for (int i = startVal; i < endVal; i++) { body },
\* the brace on a line of its own
parseForStatement(startVal, endVal, toks, line) ==
    LoopStatement(endVal - startVal, Block(cppParseBlock(toks, line + 2)), line)

(***************************************************************************)
(* Spec: one program written in both families, compiled and run side by    *)
(* side by the driver.                                                     *)
(***************************************************************************)
\* a statement and the statement of the other family equivalent to it
CommandPairs ==
    { <<Token("MOVE", "forward", -1), CppToken("move_forward", -1)>>,
      <<Token("MOVE", "back", -1), CppToken("move_back", -1)>>,
      <<Token("TURN", "left", -1), CppToken("turn_left", -1)>>,
      <<Token("TURN", "right", -1), CppToken("turn_right", -1)>>,
      <<Token("COLLECT", "", -1), CppToken("collect", -1)>>,
      <<Token("WAIT", "", -1), CppToken("wait", -1)>>,
      <<Token("WAIT", "", 2), CppToken("wait", 2)>> }

\* bodies of up to two statements, as sequences of such pairs
BodyPairs ==
    {<< >>} \cup { <<p>> : p \in CommandPairs } \cup
    { <<p, q>> : p \in { c \in CommandPairs : c[1].kw \in {"MOVE", "WAIT"} },
                 q \in { c \in CommandPairs : c[1].kw \in {"TURN", "COLLECT"} } }

firsts(pairs) == [k \in 1..Len(pairs) |-> pairs[k][1]]
seconds(pairs) == [k \in 1..Len(pairs) |-> pairs[k][2]]

\* the largest start value of a for loop
MaxStart == 1

\* MOVE forward / LOOP n: body END / TURN left
LoopProgram(n, pairs) ==
    Program(<<parseStatement(Token("MOVE", "forward", -1), 1),
              parseLoopStatement(n, firsts(pairs), 2),
              parseStatement(Token("TURN", "left", -1), Len(pairs) + 4)>>)

\* move_forward(); / for (int i = a; i < b; i++) { body } / turn_left();
ForProgram(a, b, pairs) ==
    Program(<<cppParseStatement(CppToken("move_forward", -1), 1),
              parseForStatement(a, b, seconds(pairs), 2),
              cppParseStatement(CppToken("turn_left", -1), Len(pairs) + 5)>>)

InitFam ==
    /\ level \in 1..Len(Levels)
    /\ gameState = NewGameState(Levels[level])
    /\ vm = NoVm
    /\ \E n \in 0..MaxLoop, a \in 0..MaxStart, pairs \in BodyPairs :
          /\ program = LoopProgram(n, pairs)
          /\ twin = [program |-> ForProgram(a, a + n, pairs), vm |-> NoVm,
                     gameState |-> NewGameState(Levels[level])]
    /\ actions = << >>
    /\ pre = NoTrace
    /\ saved = NoSnapshot
    /\ atSaved = NoSnapshot
    /\ lexer = NoLexer
    /\ app = NoApp
    /\ heap = NoHeap
    /\ ret = NoResult
    /\ sinceScan = -1

\* run() for each of the two programs
RunBoth ==
    \E b1 \in {compile(program)}, b2 \in {compile(twin.program)} :
        /\ vm.state = "NONE"
        /\ gameState' = NewGameState(Levels[level])
        /\ vm' = run([NewVirtualMachine(b1.instructions) EXCEPT !.maxInstructions = RunBudget])
        /\ twin' = [twin EXCEPT
                      !.vm = run([NewVirtualMachine(b2.instructions)
                                    EXCEPT !.maxInstructions = RunBudget]),
                      !.gameState = NewGameState(Levels[level])]
        /\ actions' = << >>
        /\ ret' = NoResult
        /\ UNCHANGED <<heap, lexer, app, program, level, pre, saved, atSaved, sinceScan>>

\* executeTick() for each of the two runs; a VM that is not RUNNING is left alone
TickBoth ==
    \E t1 \in {tick(vm, gameState)}, t2 \in {tick(twin.vm, twin.gameState)} :
        \E r1 \in {IF vm.state = "RUNNING" THEN driverTick(t1)
                   ELSE Returns(vm, gameState, Null)},
           r2 \in {IF twin.vm.state = "RUNNING" THEN driverTick(t2)
                   ELSE Returns(twin.vm, twin.gameState, Null)} :
            /\ vm.state = "RUNNING" \/ twin.vm.state = "RUNNING"
            /\ vm' = r1.vm
            /\ gameState' = r1.gs
            /\ twin' = [twin EXCEPT !.vm = r2.vm, !.gameState = r2.gs]
            /\ actions' = IF r1.action # Null THEN Append(actions, r1.action) ELSE actions
            /\ ret' = [op |-> "tick", from |-> vm.state, value |-> r1.action, error |-> r1.error]
            /\ UNCHANGED <<heap, lexer, app, program, level, pre, saved, atSaved, sinceScan>>

NextFam ==
    \/ RunBoth
    \/ TickBoth

SpecFam == InitFam /\ [][NextFam]_vars

\* op and arg of every instruction, the lines left out
opArgs(code) == [i \in 1..Len(code) |-> [op |-> code[i].op, arg |-> code[i].arg]]

\* C21: LOOP N: body END and for (int i = a; i < b; i++) { body } with
\* b - a = N and equivalent bodies compile to the same instruction sequence
\* (same op and arg at every index), and the two programs drive the World
\* through identical state sequences.
C21_FamiliesCompileAlike ==
    vm.state # "NONE" =>
        /\ opArgs(vm.bytecode) = opArgs(twin.vm.bytecode)
        /\ gameState = twin.gameState
        /\ vm.state = twin.vm.state
        /\ vm.ip = twin.vm.ip

\* both programs, a for loop from 1 to 3 and LOOP 2 with a body, have run to
\* their end on differing lines
C21_Witness ==
    /\ ranToEnd
    /\ twin.vm.state = "HALTED"
    /\ program.body[2].count = 2
    /\ Len(program.body[2].body.statements) = 2
    /\ twin.program.body[2].body.statements[1].line # program.body[2].body.statements[1].line
    /\ gameState.stats.ticks >= 2
    /\ gameState = twin.gameState

(***************************************************************************)
(* Spec: scenario S4, `while (energy > 90) { move_forward(); }` run by the *)
(* driver in straight corridors of several widths.                         *)
(***************************************************************************)
\* the widths of the corridors, walls included
MinWidth == 4
MaxWidth == 10

\* a corridor w tiles wide: one row of empty tiles inside walls, the drone
\* at its west end facing east with 100 energy
Corridor(w) ==
    [id |-> "corridor", width |-> w, height |-> 3,
     grid |-> Rows(<< [i \in 1..w |-> WALL],
                      [i \in 1..w |-> IF i = 1 \/ i = w THEN WALL ELSE EMPTY],
                      [i \in 1..w |-> WALL] >>),
     startX |-> 1, startY |-> 1, startFacing |-> "east",
     startEnergy |-> 100, maxEnergy |-> 100, scanRadius |-> 5,
     objectives |-> << [type |-> "collect", resource |-> "crystal", count |-> 1] >>]

\* CppParser.parseWhileStatement on the text of S4
SrcS4 ==
    Program(<<WhileStatement(
                  BinaryExpression(">", Identifier("energy", 1), Literal(Num(90), 1), 1),
                  Block(<<cppParseStatement(CppToken("move_forward", -1), 1)>>), 1)>>)

\* the instruction budget of these runs (10000 in main.js): more than the
\* 35 instructions S4 needs to bring the energy from 100 to 90
CorridorBudget == 40

InitCorridor ==
    /\ level \in MinWidth..MaxWidth
    /\ gameState = NewGameState(Corridor(level))
    /\ vm = NoVm
    /\ program = SrcS4
    /\ actions = << >>
    /\ pre = NoTrace
    /\ saved = NoSnapshot
    /\ atSaved = NoSnapshot
    /\ ret = NoResult
    /\ sinceScan = -1
    /\ twin = NoTwin
    /\ lexer = NoLexer
    /\ app = NoApp
    /\ heap = NoHeap

\* run() in the corridor
RunCorridor ==
    \E bytecode \in {compile(program)} :
        /\ vm.state # "PAUSED"
        /\ gameState' = NewGameState(Corridor(level))
        /\ vm' = run([NewVirtualMachine(bytecode.instructions)
                        EXCEPT !.maxInstructions = CorridorBudget])
        /\ actions' = << >>
        /\ ret' = NoResult
        /\ pre' = NoTrace
        /\ UNCHANGED <<heap, lexer, app, twin, program, level, saved, atSaved, sinceScan>>

NextCorridor ==
    \/ RunCorridor
    \/ ProgTick

SpecCorridor == InitCorridor /\ [][NextCorridor]_vars

\* the tile in front of the drone is a wall
blocked == getTile(gameState, gameState.drone.x + 1, gameState.drone.y) = WALL

\* C26 as stated: S4 reaches HALTED, never the instruction-limit ERROR, once
\* the energy is <= 90 or once the drone is blocked by a wall.
C26_NeverInstructionLimit == vm.state # "ERROR"

\* C26, amended: S4 tests energy > 90 before every move, so the energy never
\* falls below 90; where the corridor leaves room for the five moves it halts
\* with 90 energy and never meets the instruction limit; where a wall blocks
\* the drone first, the failed moves cost nothing, the condition stays true
\* and the run ends in the instruction-limit ERROR.
C26_HaltsUnlessBlocked ==
    /\ gameState.drone.energy >= 90
    /\ vm.state = "ERROR" =>
          /\ blocked
          /\ gameState.drone.energy > 90
          /\ vm.instructionCount = CorridorBudget
    /\ (vm.state = "HALTED" /\ ret # NoResult) =>
          /\ ranToEnd
          /\ gameState.drone.energy = 90
          /\ gameState.stats.moves = 5
    /\ level >= 8 => vm.state # "ERROR"
    /\ (level < 8 /\ vm.state # "NONE") => vm.state # "HALTED"

\* S4 has halted in the 10-wide corridor after five moves, with 90 energy
C26_Witness ==
    /\ level = 10
    /\ ranToEnd
    /\ gameState.drone.energy = 90
    /\ gameState.drone.x = 6
    /\ vm.instructionCount = 35

\* the number of tick calls the driver has made since run()
tickCalls == Len(pre.states)

\* C27: a VM started with run() and ticked by the driver, without pause,
\* rewind or reset, is HALTED or in ERROR after at most maxInstructions + 1
\* tick calls, and instructionCount never exceeds maxInstructions.
C27_RunEndsWithinBudget ==
    vm.state # "NONE" =>
        /\ vm.instructionCount <= vm.maxInstructions
        /\ tickCalls <= vm.maxInstructions + 1
        /\ tickCalls = vm.maxInstructions + 1 => vm.state \in {"HALTED", "ERROR"}
        /\ vm.state = "RUNNING" => tickCalls = vm.instructionCount

\* an endless WHILE has used the whole budget and the next tick ended the run
C27_Witness ==
    /\ vm.state = "ERROR"
    /\ vm.instructionCount = RunBudget
    /\ tickCalls = RunBudget + 1
    /\ program.body[1].type = "WhileStatement"

\* the truth of a condition of the source programs in a World
condTruth(cond, gs) ==
    CASE cond = CondEnergyHigh -> gs.drone.energy > 50
      [] cond = CondEnergyFull -> gs.drone.energy > 97
      [] cond = CondScanEmpty -> scan(gs, "forward").result = "empty"
      [] cond = CondNoCrystal -> gs.inventory.crystal = 0
      [] cond = CondFalse -> FALSE
      [] cond = CondTrue -> TRUE

\* the World after a condition has been evaluated: only Scan() changes it
afterCond(cond, gs) == IF cond = CondScanEmpty THEN scan(gs, "forward").gs ELSE gs

\* the statements of the branch an IF selects: the consequent of the first
\* condition of the chain that is true, else the final ELSE, else nothing
RECURSIVE chosenBranch(_, _)
chosenBranch(stmt, gs) ==
    IF condTruth(stmt.condition, gs) THEN stmt.consequent.statements
    ELSE IF stmt.alternate = NoNode THEN << >>
    ELSE IF stmt.alternate.type = "IfStatement"
    THEN chosenBranch(stmt.alternate, afterCond(stmt.condition, gs))
    ELSE stmt.alternate.statements

\* an IF with branches free of control flow, followed by one plain statement
isPlainIf ==
    /\ program.type = "Program"
    /\ Len(program.body) = 2
    /\ program.body[1].type = "IfStatement"

\* C30: the code compiled for an If (ELIF chains included) executes exactly
\* one branch: the consequent iff the condition is truthy, otherwise the
\* alternate (the first branch of the chain whose condition is truthy, or the
\* final else, or nothing); then execution resumes at the statement after
\* the whole If, with the operand stack as deep as before it.
C30_IfRunsOneBranch ==
    (isPlainIf /\ ranToEnd) =>
        /\ actions = actionsOf(chosenBranch(program.body[1], NewGameState(Levels[level])))
                     \o <<actionOf(program.body[2])>>
        /\ vm.stack = << >>

\* both conditions of a chain were false and the final ELSE has run
C30_Witness ==
    /\ isPlainIf
    /\ ranToEnd
    /\ program.body[1].alternate.type = "IfStatement"
    /\ program.body[1].consequent.statements # << >>
    /\ actions = <<actionOf(WaitStatement(2, 7)), actionOf(program.body[2])>>

(***************************************************************************)
(* Further claims about the simulator's calls, checked under SpecCalls.    *)
(***************************************************************************)

\* the ticks the last call asked to wait
waited(r) == IF r.op = "executeWait" THEN r.arg ELSE 0

\* a call has started the statistics afresh
statsCleared == gameState'.stats = InitialStats

\* one call adds to ticks what it adds to moves, turns and collects, and the
\* length of a wait
ticksFollowCounters ==
    gameState'.stats.ticks - gameState.stats.ticks =
        (gameState'.stats.moves - gameState.stats.moves)
        + (gameState'.stats.turns - gameState.stats.turns)
        + (gameState'.stats.collects - gameState.stats.collects)
        + waited(ret')

\* C33: in every World state reachable from construction or reset(level)
\* through action calls, stats.ticks equals moves + turns + collects plus
\* the ticks of all waits, and stats.energyWasted is 0.  The sum over the
\* waits is carried call by call: every call either clears the statistics
\* or adds to ticks exactly its own share.
C33_TicksAreCountersPlusWaits ==
    /\ [](/\ gameState.stats.energyWasted = 0
          /\ gameState.stats.ticks >= gameState.stats.moves + gameState.stats.turns
                                        + gameState.stats.collects
          /\ (ret = NoResult => gameState.stats = InitialStats))
    /\ [][(ret'.op = "reset" /\ statsCleared) \/ (ret'.op # "reset" /\ ticksFollowCounters)]_vars

\* a wait of two ticks has been followed by a move and a turn
C33_Witness ==
    /\ gameState.stats.ticks = 4
    /\ gameState.stats.moves = 1
    /\ gameState.stats.turns = 1
    /\ ret.op = "executeTurn"

\* the last call was a successful move, turn, collect or scan
succeeded ==
    \/ ret.op \in {"executeMove", "executeTurn", "executeCollect"} /\ ret.value.success
    \/ ret.op = "scan" /\ ret.value \notin {"cooldown", "no_energy"}

\* C40: whenever a successful move, turn, collect or scan leaves the
\* drone's energy at 0 the World's status is lost afterwards; energy 0 with
\* status playing is found in initial states only.
C40_ZeroEnergyIsLost ==
    (ret # NoResult /\ gameState.drone.energy = 0) =>
        /\ gameState.status # "playing"
        /\ succeeded => gameState.status = "lost"

(***************************************************************************)
(* Conservation of collectibles, checked under SpecWorld.                  *)
(***************************************************************************)

\* the inventory key of each collectible tile kind
Collectibles == {<<CRYSTAL, "crystal">>, <<DATA, "data">>, <<ENERGY_CELL, "energyCell">>}

\* the cells of a grid holding a tile of the kind
tilesOf(grid, kind) ==
    { c \in UNION { { <<x, y>> : x \in DOMAIN grid[y] } : y \in DOMAIN grid } :
        grid[c[2]][c[1]] = kind }

\* the step is a restore of the saved snapshot or a reset of the level
rewinds ==
    \/ saved # NoSnapshot /\ gameState' = restore(gameState, saved)
    \/ gameState' = reset(gameState, Levels[level])

\* the step writes no tile other than EMPTY
createsNoTile ==
    \A y \in DOMAIN gameState.grid : \A x \in DOMAIN gameState.grid[y] :
        gameState'.grid[y][x] # gameState.grid[y][x] => gameState'.grid[y][x] = EMPTY

\* an inventory count rises by one, in a collect that empties the drone's tile
risesByCollect ==
    \A k \in Collectibles :
        gameState'.inventory[k[2]] > gameState.inventory[k[2]] =>
            /\ gameState'.inventory[k[2]] = gameState.inventory[k[2]] + 1
            /\ gameState.grid[gameState.drone.y][gameState.drone.x] = k[1]
            /\ gameState'.grid[gameState.drone.y][gameState.drone.x] = EMPTY
            /\ gameState'.stats.collects = gameState.stats.collects + 1
            /\ gameState'.drone.x = gameState.drone.x /\ gameState'.drone.y = gameState.drone.y

\* C38: collectibles are conserved.  In every state reachable through action
\* calls, snapshot/restore and reset, for each of crystal, data and energy
\* cell the tiles of that kind on the grid plus the inventory count equal
\* the level's initial number of such tiles; no action creates a tile, and
\* an inventory count rises only in the collect that empties the tile.
C38_CollectiblesConserved ==
    /\ [](\A k \in Collectibles :
            Cardinality(tilesOf(gameState.grid, k[1])) + gameState.inventory[k[2]]
                = Cardinality(tilesOf(Levels[level].grid, k[1])))
    /\ [][rewinds \/ (createsNoTile /\ risesByCollect)]_vars

\* the energy cell of the Arena is in the inventory, a snapshot being held
C38_Witness ==
    /\ level = 2
    /\ saved # NoSnapshot
    /\ gameState.inventory.energyCell = 1
    /\ tilesOf(gameState.grid, ENERGY_CELL) = {}
    /\ Cardinality(tilesOf(gameState.grid, DATA)) = 2

(***************************************************************************)
(* The score of runs that did not win, checked under SpecStars.            *)
(***************************************************************************)

\* C37: a run whose final World status is not won never receives 5 stars:
\* for every combination of stats and level reference values with status
\* other than won the analyzer's total score is below 90.
C37_NotWonBelowNinety ==
    (ret.op = "analyze" /\ gameState.status # "won") =>
        /\ ret.score < 90
        /\ ret.stars < 5

(***************************************************************************)
(* The event log the analyzer is given, checked under SpecProg.            *)
(***************************************************************************)

\* the opcode executed by the i-th tick call since run(), "" if none was
executedOp(i) ==
    IF pre.states[i].ip < Len(vm.bytecode) /\ pre.states[i].instructionCount < vm.maxInstructions
    THEN vm.bytecode[pre.states[i].ip + 1].op
    ELSE ""

\* the VM has executed two TURN instructions, one directly after the other
twoTurnsRunning ==
    \E i \in 1..(tickCalls - 1) : executedOp(i) = "TURN" /\ executedOp(i + 1) = "TURN"

\* C32: for a run in which the VM executes two TURN instructions one
\* directly after the other (the score being below 100), analyze() applied
\* to the run's VM event log finds the consecutive turns: the log records an
\* ACTION event of type TURN for each TURN executed.
C32_ConsecutiveTurnsSuggested ==
    (/\ vm.state = "HALTED"
     /\ twoTurnsRunning
     /\ \A result \in analyze(gameState, optimalOf[level]) : result.score < 100)
        => hasConsecutiveTurns(vm.eventLog)

(***************************************************************************)
(* CppLexer: the lexer of the brace syntax.  A source text, and the value  *)
(* of a token, is a sequence of characters; NUL is the '\0' that peek      *)
(* returns past the end of the text.                                       *)
(***************************************************************************)
NUL == "NUL"
LowerCase == <<"a", "b", "c", "d", "e", "f", "g", "h", "i", "j", "k", "l", "m",
               "n", "o", "p", "q", "r", "s", "t", "u", "v", "w", "x", "y", "z">>
UpperCase == <<"A", "B", "C", "D", "E", "F", "G", "H", "I", "J", "K", "L", "M",
               "N", "O", "P", "Q", "R", "S", "T", "U", "V", "W", "X", "Y", "Z">>
Digits == <<"0", "1", "2", "3", "4", "5", "6", "7", "8", "9">>

\* the members of a sequence
Range(s) == { s[i] : i \in DOMAIN s }

\* /[0-9]/, /[a-zA-Z_]/ and /[a-zA-Z0-9_]/
isDigit(c) == c \in Range(Digits)
isIdentStart(c) == c \in Range(LowerCase) \cup Range(UpperCase) \cup {"_"}
isIdentPart(c) == isIdentStart(c) \/ isDigit(c)

\* value.toLowerCase()
lowered(value) ==
    [i \in DOMAIN value |->
        IF value[i] \in Range(UpperCase)
        THEN LowerCase[CHOOSE k \in DOMAIN UpperCase : UpperCase[k] = value[i]]
        ELSE value[i]]

\* CPP_KEYWORDS[lower] || CppTokenType.IDENTIFIER
CPP_KEYWORDS(lower) ==
    CASE lower = <<"i", "f">> -> "IF"
      [] lower = <<"e", "l", "s", "e">> -> "ELSE"
      [] lower = <<"f", "o", "r">> -> "FOR"
      [] lower = <<"w", "h", "i", "l", "e">> -> "WHILE"
      [] lower = <<"i", "n", "t">> -> "INT"
      [] lower = <<"m", "o", "v", "e", "_", "f", "o", "r", "w", "a", "r", "d">> -> "MOVE_FORWARD"
      [] lower = <<"m", "o", "v", "e", "_", "b", "a", "c", "k">> -> "MOVE_BACK"
      [] lower = <<"t", "u", "r", "n", "_", "l", "e", "f", "t">> -> "TURN_LEFT"
      [] lower = <<"t", "u", "r", "n", "_", "r", "i", "g", "h", "t">> -> "TURN_RIGHT"
      [] lower = <<"c", "o", "l", "l", "e", "c", "t">> -> "COLLECT"
      [] lower = <<"w", "a", "i", "t">> -> "WAIT"
      [] lower = <<"l", "o", "g">> -> "LOG"
      [] lower = <<"s", "c", "a", "n">> -> "SCAN"
      [] lower = <<"s", "c", "a", "n", "_", "l", "e", "f", "t">> -> "SCAN_LEFT"
      [] lower = <<"s", "c", "a", "n", "_", "r", "i", "g", "h", "t">> -> "SCAN_RIGHT"
      [] OTHER -> "IDENTIFIER"

\* the two-character operators and the single-character tokens of tokenize
TwoCharTokens ==
    { <<"=", "=", "EQUALS">>,
      <<"!", "=", "NOT_EQUALS">>,
      <<"<", "=", "LESS_EQ">>,
      <<">", "=", "GREATER_EQ">>,
      <<"&", "&", "AND">>,
      <<"|", "|", "OR">>,
      <<"+", "+", "PLUS_PLUS">>,
      <<"-", "-", "MINUS_MINUS">> }
OneCharTokens ==
    { <<";", "SEMICOLON">>,
      <<"(", "LPAREN">>,
      <<")", "RPAREN">>,
      <<"{", "LBRACE">>,
      <<"}", "RBRACE">>,
      <<".", "DOT">>,
      <<",", "COMMA">>,
      <<"<", "LESS_THAN">>,
      <<">", "GREATER_THAN">>,
      <<"=", "ASSIGN">>,
      <<"!", "NOT">>,
      <<"+", "PLUS">>,
      <<"-", "MINUS">> }

\* new CppToken(type, value, line, column)
LexToken(type, value, line, column) ==
    [type |-> type, value |-> value, line |-> line, column |-> column]

\* new CppLexer(source)
CppLexer(source) ==
    [source |-> source, pos |-> 0, line |-> 1, column |-> 1, tokens |-> << >>,
     stage |-> "lexing", error |-> ""]

cppPeek(lx, offset) ==
    IF lx.pos + offset < Len(lx.source) THEN lx.source[lx.pos + offset + 1] ELSE NUL

cppAdvance(lx) ==
    IF cppPeek(lx, 0) = "\n"
    THEN [lx EXCEPT !.pos = @ + 1, !.line = @ + 1, !.column = 1]
    ELSE [lx EXCEPT !.pos = @ + 1, !.column = @ + 1]

\* push a token that starts where `from` stands
pushToken(lx, from, type, value) ==
    [lx EXCEPT !.tokens = Append(@, LexToken(type, value, from.line, from.column))]

RECURSIVE skipWhitespace(_)
skipWhitespace(lx) ==
    IF cppPeek(lx, 0) \in {" ", "\t", "\r"} THEN skipWhitespace(cppAdvance(lx)) ELSE lx

\* the loop of a line comment: up to the newline or the end
RECURSIVE skipToLineEnd(_)
skipToLineEnd(lx) ==
    IF cppPeek(lx, 0) # "\n" /\ cppPeek(lx, 0) # NUL THEN skipToLineEnd(cppAdvance(lx)) ELSE lx

\* the loop of a block comment: up to the closing */ or the end
RECURSIVE skipToCommentEnd(_)
skipToCommentEnd(lx) ==
    IF ~(cppPeek(lx, 0) = "*" /\ cppPeek(lx, 1) = "/") /\ cppPeek(lx, 0) # NUL
    THEN skipToCommentEnd(cppAdvance(lx))
    ELSE lx

skipComment(lx) ==
    LET l1 == IF cppPeek(lx, 0) = "/" /\ cppPeek(lx, 1) = "/" THEN skipToLineEnd(lx) ELSE lx
    IN IF cppPeek(l1, 0) = "/" /\ cppPeek(l1, 1) = "*"
       THEN LET body == skipToCommentEnd(cppAdvance(cppAdvance(l1)))
            IN IF cppPeek(body, 0) # NUL THEN cppAdvance(cppAdvance(body)) ELSE body
       ELSE l1

\* the digits read from the position
RECURSIVE readDigits(_, _)
readDigits(lx, value) ==
    IF isDigit(cppPeek(lx, 0))
    THEN readDigits(cppAdvance(lx), Append(value, cppPeek(lx, 0)))
    ELSE [lx |-> lx, value |-> value]

\* parseFloat of a text of digits
RECURSIVE parseDigits(_, _, _)
parseDigits(text, i, n) ==
    IF i > Len(text) THEN n
    ELSE parseDigits(text, i + 1, 10 * n + (CHOOSE d \in 0..9 : Digits[d + 1] = text[i]))

\* readNumber: the integer part, and a fraction when a dot and a digit follow;
\* the token's value is the number, its fraction kept as digits
readNumber(lx) ==
    LET whole == readDigits(lx, << >>)
        frac == IF cppPeek(whole.lx, 0) = "." /\ isDigit(cppPeek(whole.lx, 1))
                THEN readDigits(cppAdvance(whole.lx), << >>)
                ELSE [lx |-> whole.lx, value |-> << >>]
    IN pushToken(frac.lx, lx, "NUMBER",
                 [t |-> "num", v |-> parseDigits(whole.value, 1, 0), frac |-> frac.value])

\* the loop of readIdentifier
RECURSIVE readIdentChars(_, _)
readIdentChars(lx, value) ==
    IF isIdentPart(cppPeek(lx, 0))
    THEN readIdentChars(cppAdvance(lx), Append(value, cppPeek(lx, 0)))
    ELSE [lx |-> lx, value |-> value]

readIdentifier(lx) ==
    LET read == readIdentChars(lx, << >>)
    IN pushToken(read.lx, lx, CPP_KEYWORDS(lowered(read.value)), Str(read.value))

\* the loop of readString: the characters up to the closing quote, a newline
\* or the end, a backslash taking the next character with it
RECURSIVE readStringChars(_, _, _)
readStringChars(lx, quote, value) ==
    IF cppPeek(lx, 0) \in {quote, NUL, "\n"} THEN [lx |-> lx, value |-> value]
    ELSE IF cppPeek(lx, 0) = "\\"
    THEN LET escaped == cppPeek(cppAdvance(lx), 0)
         IN readStringChars(cppAdvance(cppAdvance(lx)), quote,
                            Append(value, CASE escaped = "n" -> "\n"
                                            [] escaped = "t" -> "\t"
                                            [] OTHER -> escaped))
    ELSE readStringChars(cppAdvance(lx), quote, Append(value, cppPeek(lx, 0)))

readString(lx) ==
    LET quote == cppPeek(lx, 0)
        read == readStringChars(cppAdvance(lx), quote, << >>)
    IN IF cppPeek(read.lx, 0) # quote
       THEN [read.lx EXCEPT !.stage = "error", !.error = "Unterminated string"]
       ELSE pushToken(cppAdvance(read.lx), lx, "STRING", Str(read.value))

\* one turn of the loop of tokenize
tokenizeStep(lexer0) ==
    LET lx == skipComment(skipWhitespace(lexer0))
        char == cppPeek(lx, 0)
    IN IF lx.pos >= Len(lx.source) THEN lx
       ELSE IF char = "\n" THEN cppAdvance(pushToken(lx, lx, "NEWLINE", Str(<<"\n">>)))
       ELSE IF isDigit(char) THEN readNumber(lx)
       ELSE IF isIdentStart(char) THEN readIdentifier(lx)
       ELSE IF char \in {"\"", "'"} THEN readString(lx)
       ELSE IF \E op \in TwoCharTokens : op[1] = char /\ op[2] = cppPeek(lx, 1)
       THEN LET op == CHOOSE op \in TwoCharTokens : op[1] = char /\ op[2] = cppPeek(lx, 1)
            IN cppAdvance(cppAdvance(pushToken(lx, lx, op[3], Str(<<op[1], op[2]>>))))
       ELSE IF \E op \in OneCharTokens : op[1] = char
       THEN LET op == CHOOSE op \in OneCharTokens : op[1] = char
            IN cppAdvance(pushToken(lx, lx, op[2], Str(<<char>>)))
       ELSE [lx EXCEPT !.stage = "error", !.error = "Unexpected character"]

\* the end of tokenize: the EOF token, runs of newlines reduced to one
tokenizeEnd(lx) ==
    LET all == Append(lx.tokens, LexToken("EOF", Null, lx.line, lx.column))
        kept == { i \in DOMAIN all :
                    all[i].type = "NEWLINE" => (i = 1 \/ all[i - 1].type # "NEWLINE") }
        nth(k) == CHOOSE i \in kept : Cardinality({ j \in kept : j < i }) = k - 1
    IN [lx EXCEPT !.stage = "done",
                  !.tokens = [k \in 1..Cardinality(kept) |-> all[nth(k)]]]

\* tokenize(): the loop to the end of the text or to the first error
RECURSIVE tokenize(_)
tokenize(lx) ==
    IF lx.stage = "error" THEN lx
    ELSE IF lx.pos < Len(lx.source) THEN tokenize(tokenizeStep(lx))
    ELSE tokenizeEnd(lx)

(***************************************************************************)
(* SpecLex: CppLexer.tokenize at work on one-line sources, one turn of its *)
(* loop at a time.                                                         *)
(***************************************************************************)
\* statements, comments and what may stand between a comment and a statement
LexStatements ==
    { <<"c", "o", "l", "l", "e", "c", "t", "(", ")", ";">>,
      <<"t", "u", "r", "n", "_", "l", "e", "f", "t", "(", ")", ";">>,
      <<"w", "a", "i", "t", "(", "1", "2", ")", ";">>,
      <<"x", "=", "y", ";">> }
LexComments ==
    { <<"/", "*", "*", "/">>,
      <<"/", "*", " ", "g", "o", " ", "*", "/">>,
      <<"/", "*", " ", "a", " ", "*", " ", "b", " ", "*", "/">>,
      <<"/", "/", " ", "g", "o", "\n">> }
LexSeparators ==
    { <<>>,
      <<" ">>,
      <<"\t">>,
      <<" ", " ">>,
      <<"/", "*", " ", "x", " ", "*", "/">>,
      <<" ", "/", "*", " ", "x", " ", "*", "/", " ">>,
      <<"\n">> }

\* the source texts: statements alone, after blanks, after and before comments
LexSources ==
    LexStatements
    \cup { sp \o st : sp \in LexSeparators, st \in LexStatements }
    \cup { c \o sp \o st : c \in LexComments, sp \in LexSeparators, st \in LexStatements }
    \cup { st \o sp \o c : c \in LexComments, sp \in LexSeparators, st \in LexStatements }
    \cup { <<"/", "*", " ", "g", "o">>, <<"\"", "a", "\\", "n", "\"", ";">>, <<"'", "a">>,
           <<"a", " ", "<", "=", " ", "1", ".", "5", " ", "&", "&", " ", "!", "b">>,
           <<"x", " ", "#">> }

InitLex ==
    /\ level = 1
    /\ gameState = NewGameState(Levels[level])
    /\ vm = NoVm
    /\ pre = NoTrace
    /\ saved = NoSnapshot
    /\ atSaved = NoSnapshot
    /\ ret = NoResult
    /\ program = NoProgram
    /\ actions = << >>
    /\ sinceScan = -1
    /\ twin = NoTwin
    /\ \E source \in LexSources : lexer = CppLexer(source)
    /\ app = NoApp
    /\ heap = NoHeap

\* one turn of the loop of tokenize
LexStep ==
    /\ lexer.stage = "lexing"
    /\ lexer.pos < Len(lexer.source)
    /\ lexer' = tokenizeStep(lexer)
    /\ UNCHANGED <<heap, level, gameState, vm, pre, saved, atSaved, ret, program, actions,
                   sinceScan, twin, app>>

\* the loop has ended: tokenize returns the tokens
LexEnd ==
    /\ lexer.stage = "lexing"
    /\ lexer.pos >= Len(lexer.source)
    /\ lexer' = tokenizeEnd(lexer)
    /\ UNCHANGED <<heap, level, gameState, vm, pre, saved, atSaved, ret, program, actions,
                   sinceScan, twin, app>>

NextLex ==
    \/ LexStep
    \/ LexEnd

SpecLex == InitLex /\ [][NextLex]_vars

\* the types and values of a token sequence
typesAndValues(tokens) == [i \in DOMAIN tokens |-> <<tokens[i].type, tokens[i].value>>]

\* C31: a block comment is skipped wherever it appears: a source line made
\* of a block comment, then spaces or tabs (or another comment), then a
\* statement lexes without error to the same token sequence as the statement
\* alone.
C31_BlockCommentSkipped ==
    \A c \in LexComments, sp \in LexSeparators, st \in LexStatements :
        (/\ c[2] = "*"
         /\ "\n" \notin Range(sp)
         /\ lexer.source = c \o sp \o st
         /\ lexer.stage # "lexing")
            => /\ lexer.stage = "done"
               /\ typesAndValues(lexer.tokens) = typesAndValues(tokenize(CppLexer(st)).tokens)

(***************************************************************************)
(* SpecApp: the application's buttons and its timer (js/main.js).  The     *)
(* STATE_CHANGE handler that run() and step() install on every VM calls    *)
(* onExecutionComplete for each event whose state is HALTED.               *)
(***************************************************************************)
\* the longest event log and the most completions of one VM explored
MaxAppLog == 5
MaxCompletions == 2

\* the programs in the editor: S1, two turns and a move, sources that fail
AppSources == {SrcS1, SrcTurns} \cup ErrSources

\* the STATE_CHANGE events of a VM that report HALTED
haltedEvents(v) ==
    { i \in DOMAIN v.eventLog :
        v.eventLog[i].type = "STATE_CHANGE" /\ v.eventLog[i].data.state = "HALTED" }

\* the STATE_CHANGE handler and onExecutionComplete, for a call that took
\* this.vm from v0 to v1: one completion for each HALTED event emitted, each
\* clearing the timer
onExecutionComplete(a, v0, v1) ==
    LET n == Cardinality(haltedEvents(v1)) - Cardinality(haltedEvents(v0))
    IN IF n > 0
       THEN [a EXCEPT !.completions = @ + n,
                      !.most = Max(@, a.completions + n),
                      !.executionInterval = FALSE]
       ELSE a

\* stop(): this.vm.stop() if there is a VM, isRunning = false, stopExecution()
appStop(a, v) ==
    LET v1 == IF v.state # "NONE" THEN stop(v) ELSE v
    IN [vm |-> v1,
        app |-> [onExecutionComplete(a, v, v1) EXCEPT !.isRunning = FALSE,
                                                      !.executionInterval = FALSE]]

\* new VirtualMachine(bytecode, ...) with its handlers: no completion yet
appNewVm(a) == [a EXCEPT !.completions = 0]

InitApp ==
    /\ level \in 1..Len(Levels)
    /\ gameState = NewGameState(Levels[level])
    /\ vm = NoVm
    /\ program \in AppSources
    /\ actions = << >>
    /\ pre = NoTrace
    /\ saved = NoSnapshot
    /\ atSaved = NoSnapshot
    /\ ret = NoResult
    /\ sinceScan = -1
    /\ twin = NoTwin
    /\ lexer = NoLexer
    /\ app = NoApp
    /\ heap = NoHeap

\* the Run button: resume a paused VM, or reset the level (which stops the
\* VM there is), compile, create a VM and start it and the timer
AppRun ==
    /\ Len(vm.eventLog) < MaxAppLog
    /\ app.most < MaxCompletions
    /\ IF vm.state = "PAUSED"
       THEN /\ vm' = run(vm)
            /\ app' = [app EXCEPT !.isRunning = TRUE, !.executionInterval = TRUE]
            /\ UNCHANGED gameState
       ELSE \E stopped \in {appStop(app, vm)} :
            \E bytecode \in {compile(program)} :
                /\ gameState' = reset(gameState, Levels[level])
                /\ vm' = run([NewVirtualMachine(bytecode.instructions)
                                EXCEPT !.maxInstructions = RunBudget])
                /\ app' = [appNewVm(stopped.app) EXCEPT !.isRunning = TRUE,
                                                        !.executionInterval = TRUE]
    /\ UNCHANGED <<heap, level, pre, saved, atSaved, ret, program, actions, sinceScan, twin, lexer>>

\* the Pause button
AppPause ==
    /\ vm.state # "NONE"
    /\ Len(vm.eventLog) < MaxAppLog
    /\ vm' = pause(vm)
    /\ app' = [app EXCEPT !.isRunning = FALSE, !.executionInterval = FALSE]
    /\ UNCHANGED <<heap, level, gameState, pre, saved, atSaved, ret, program, actions, sinceScan,
                   twin, lexer>>

\* the Step button: with no VM, or a halted or failed one, reset the level
\* and create a paused VM; then one tick
AppStep ==
    /\ Len(vm.eventLog) < MaxAppLog
    /\ app.most < MaxCompletions
    /\ \E fresh \in {IF vm.state \in {"NONE", "HALTED", "ERROR"}
                     THEN [vm |-> [NewVirtualMachine(compile(program).instructions)
                                      EXCEPT !.state = "PAUSED"],
                           gs |-> reset(gameState, Levels[level]),
                           app |-> appNewVm(appStop(app, vm).app)]
                     ELSE [vm |-> vm, gs |-> gameState, app |-> app]} :
       \E v0 \in {IF fresh.vm.state = "READY" THEN [fresh.vm EXCEPT !.state = "PAUSED"]
                  ELSE fresh.vm} :
       \E r \in {driverTick(tick(v0, fresh.gs))} :
           /\ vm' = r.vm
           /\ gameState' = r.gs
           /\ app' = onExecutionComplete(fresh.app, v0, r.vm)
    /\ UNCHANGED <<heap, level, pre, saved, atSaved, ret, program, actions, sinceScan, twin, lexer>>

\* the Stop button
AppStop ==
    /\ app.most < MaxCompletions
    /\ \E stopped \in {appStop(app, vm)} :
          /\ vm' = stopped.vm
          /\ app' = stopped.app
    /\ UNCHANGED <<heap, level, gameState, pre, saved, atSaved, ret, program, actions, sinceScan,
                   twin, lexer>>

\* the Reset button: resetLevel() stops the VM and resets the World
AppReset ==
    /\ app.most < MaxCompletions
    /\ \E stopped \in {appStop(app, vm)} :
          /\ vm' = stopped.vm
          /\ app' = stopped.app
    /\ gameState' = reset(gameState, Levels[level])
    /\ UNCHANGED <<heap, level, pre, saved, atSaved, ret, program, actions, sinceScan, twin, lexer>>

\* the timer fires: executeTick() clears the timer unless the VM is RUNNING,
\* else ticks the VM; an error thrown by the tick clears the timer too
AppTick ==
    /\ app.executionInterval
    /\ IF vm.state # "RUNNING"
       THEN /\ app' = [app EXCEPT !.executionInterval = FALSE]
            /\ UNCHANGED <<vm, gameState>>
       ELSE \E r \in {driverTick(tick(vm, gameState))} :
            /\ vm' = r.vm
            /\ gameState' = r.gs
            /\ app' = IF r.error # Null
                      THEN [onExecutionComplete(app, vm, r.vm) EXCEPT !.executionInterval = FALSE]
                      ELSE onExecutionComplete(app, vm, r.vm)
    /\ UNCHANGED <<heap, level, pre, saved, atSaved, ret, program, actions, sinceScan, twin, lexer>>

NextApp ==
    \/ AppRun
    \/ AppPause
    \/ AppStep
    \/ AppStop
    \/ AppReset
    \/ AppTick

SpecApp == InitApp /\ [][NextApp]_vars

\* C36: the end-of-run handler onExecutionComplete (analysis, overlay and
\* level-completion recording) runs at most once per VirtualMachine
\* instance, whatever interleaving of timer ticks with the Run, Step, Stop
\* and Reset buttons occurs after the VM has halted.
C36_CompletesOncePerVm ==
    /\ app.completions <= 1
    /\ app.most <= 1

(***************************************************************************)
(* The second copy of the compiler and of the VM (unnamed/part_001 and     *)
(* unnamed/part_000).  They differ from compiler.js and vm.js in the       *)
(* compilation of LOOP and in the two opcodes it uses; the rest of both    *)
(* files is the same code.                                                 *)
(***************************************************************************)
\* the count up to which compileLoopStatement repeats the body
UnrollLimit == 10

\* for (i = 0; i < count; i++) compileBlock(stmt.body.statements)
RECURSIVE unrolled(_, _, _)
unrolled(ins, statements, remaining) ==
    IF remaining <= 0 THEN ins
    ELSE unrolled(compileBlock(ins, statements), statements, remaining - 1)

\* compileLoopStatement of the second copy, for a body without a LOOP in it
compileLoopStatement2(ins, stmt) ==
    LET count == stmt.count IN
    IF count <= UnrollLimit THEN unrolled(ins, stmt.body.statements, count)
    ELSE LET i1 == compilerEmit(ins, "PUSH", Num(0), stmt.line)
             loopStart == currentAddr(i1)
             i2 == compilerEmit(i1, "PUSH", Num(count), 0)
             i3 == compilerEmit(i2, "LOOP_CHECK", Num(count), 0)
             jumpIfDone == Len(i3)
             i4 == compilerEmit(i3, "JIF", 0, 0)
             i5 == compileBlock(i4, stmt.body.statements)
             i6 == compilerEmit(i5, "LOOP_INC", Null, 0)
             i7 == compilerEmit(i6, "JUMP", loopStart, 0)
             i8 == patchJump(i7, jumpIfDone, currentAddr(i7))
         IN compilerEmit(i8, "POP", Null, 0)

\* compileBlock of the second copy over the statements of the program, from
\* the i-th on
RECURSIVE compileBlockFrom2(_, _, _)
compileBlockFrom2(ins, statements, i) ==
    IF i > Len(statements) THEN ins
    ELSE compileBlockFrom2(IF statements[i].type = "LoopStatement"
                           THEN compileLoopStatement2(ins, statements[i])
                           ELSE compileStatement(ins, statements[i]),
                           statements, i + 1)

compile2(ast) ==
    LET ins == compilerEmit(compileBlockFrom2(<< >>, ast.body, 1), "HALT", Null, 0)
    IN [instructions |-> ins, sourceMap |-> buildSourceMap(ins)]

\* executeInstruction of the second copy: LOOP_CHECK, LOOP_INC, and the
\* cases it shares with vm.js
executeInstruction2(v, gs, instr, line) ==
    CASE instr.op = "LOOP_CHECK" ->
            LET counter == IF truthy(peek(v)) THEN peek(v) ELSE Num(0)
                maxCount == instr.arg
            IN Returns(advance(push(v, jsLt(counter, maxCount))), gs, Null)
      [] instr.op = "LOOP_INC" ->
            IF Len(v.stack) = 0 THEN Throws(v, gs, "Stack underflow", line, "")
            ELSE LET currentCount == IF truthy(peek(v)) THEN peek(v) ELSE Num(0)
                 IN Returns(advance(push(popped(v), jsAdd(currentCount, Num(1)))), gs, Null)
      [] OTHER -> executeInstruction(v, gs, instr, line)

tick2(v, gs) ==
    IF tickIgnored(v) THEN Returns(v, gs, Null)
    ELSE IF tickOverLimit(v)
    THEN Throws([v EXCEPT !.state = "ERROR"], gs,
                "Execution stopped: Maximum instruction limit reached", getCurrentLine(v),
                "Possible infinite loop detected. Check your WHILE conditions.")
    ELSE IF v.ip >= Len(v.bytecode)
    THEN Returns(emit([v EXCEPT !.state = "HALTED"], "STATE_CHANGE", [state |-> "HALTED"]),
                 gs, Null)
    ELSE
        LET v1 == saveSnapshot(v, gs)
            instr == v1.bytecode[v1.ip + 1]
            line == getCurrentLine(v1)
            v2 == [v1 EXCEPT !.instructionCount = @ + 1]
            r == executeInstruction2(v2, gs, instr, line)
        IN IF r.error = Null THEN r
           ELSE [r EXCEPT !.vm = emit([r.vm EXCEPT !.state = "ERROR"], "ERROR",
                                      [error |-> r.error.message, line |-> line])]

\* programs whose LOOPs stand at the top level with straight bodies
Sources2 == {SrcS1, SrcS3, SrcTurns} \cup LoopSources \cup WaitSources

InitProg2 ==
    /\ level \in 1..Len(Levels)
    /\ gameState = NewGameState(Levels[level])
    /\ vm = NoVm
    /\ program \in Sources2
    /\ actions = << >>
    /\ pre = NoTrace
    /\ saved = NoSnapshot
    /\ atSaved = NoSnapshot
    /\ ret = NoResult
    /\ sinceScan = -1
    /\ twin = NoTwin
    /\ lexer = NoLexer
    /\ app = NoApp
    /\ heap = NoHeap

\* run() with the second copy of the compiler
RunProgram2 ==
    \E bytecode \in {compile2(program)} :
        /\ vm.state # "PAUSED"
        /\ gameState' = NewGameState(Levels[level])
        /\ vm' = run([NewVirtualMachine(bytecode.instructions)
                        EXCEPT !.maxInstructions = RunBudget])
        /\ actions' = << >>
        /\ ret' = NoResult
        /\ pre' = NoTrace
        /\ UNCHANGED <<heap, lexer, app, twin, program, level, saved, atSaved, sinceScan>>

\* executeTick() with the second copy of the VM
ProgTick2 ==
    \E t \in {tick2(vm, gameState)} :
        \E r \in {driverTick(t)} :
            /\ vm.state = "RUNNING"
            /\ vm' = r.vm
            /\ gameState' = r.gs
            /\ actions' = IF r.action # Null THEN Append(actions, r.action) ELSE actions
            /\ ret' = [op |-> "tick", from |-> vm.state, value |-> r.action, error |-> r.error]
            /\ pre' = [pre EXCEPT !.states = Append(@, Cur(vm, gameState))]
            /\ UNCHANGED <<heap, lexer, app, twin, program, level, saved, atSaved, sinceScan>>

NextProg2 ==
    \/ RunProgram2
    \/ ProgTick2

SpecProg2 == InitProg2 /\ [][NextProg2]_vars

\* the last tick raised the VM's stack underflow error
underflowed == ret # NoResult /\ ret.error # Null /\ ret.error.message = "Stack underflow"

\* the VM has stopped at the HALT instruction that ends the bytecode
haltedByInstruction ==
    /\ vm.state = "HALTED"
    /\ ret # NoResult
    /\ ret.error = Null
    /\ vm.ip = Len(vm.bytecode) - 1
    /\ vm.bytecode[vm.ip + 1].op = "HALT"

\* C35: compiled bytecode never underflows the operand stack, and when the
\* VM stops at the HALT instruction the operand stack is empty: every
\* statement, a LOOP of any count included, leaves the stack as deep as it
\* found it.
C35_StackBalanced ==
    /\ ~underflowed
    /\ haltedByInstruction => vm.stack = << >>

(***************************************************************************)
(* SpecJump: compiled programs with jumps under every control call of the  *)
(* VM: run, pause, stop, reset, tick and rewind(n) in any order.           *)
(***************************************************************************)
\* LOOP, WHILE and IF programs, some ending in the jumping statement
JumpSources ==
    { SrcS3,
      Program(<<WhileStatement(CondEnergyFull, Block(<<MoveStatement("forward", 2)>>), 1)>>),
      Program(<<WhileStatement(CondFalse, Block(<<TurnStatement("left", 2)>>), 1),
                CollectStatement(4)>>),
      Program(<<IfStatement(CondScanEmpty, Block(<<MoveStatement("forward", 2)>>),
                            Block(<<TurnStatement("right", 4)>>), 1)>>),
      Program(<<IfStatement(CondFalse, Block(<<CollectStatement(2)>>), NoNode, 1)>>),
      Program(<<LoopStatement(11, Block(<<IfStatement(CondEnergyHigh,
                                                       Block(<<MoveStatement("forward", 3)>>),
                                                       NoNode, 2)>>), 1),
                TurnStatement("left", 6)>>) }

\* the VM the driver creates for the compiled program (main.js run)
InitJump ==
    /\ level \in 1..Len(Levels)
    /\ gameState = NewGameState(Levels[level])
    /\ program \in JumpSources
    /\ vm = [NewVirtualMachine(compile(program).instructions)
               EXCEPT !.maxInstructions = RunBudget]
    /\ pre = NoTrace
    /\ saved = NoSnapshot
    /\ atSaved = NoSnapshot
    /\ ret = NoResult
    /\ actions = << >>
    /\ sinceScan = -1
    /\ twin = NoTwin
    /\ lexer = NoLexer
    /\ app = NoApp
    /\ heap = NoHeap

SpecJump == InitJump /\ [][NextCtl]_vars

\* tick would take its branch for an instruction pointer past the bytecode
pastTheEnd(v) == ~tickIgnored(v) /\ ~tickOverLimit(v) /\ v.ip >= Len(v.bytecode)

\* C34: for compiled bytecode the instruction pointer stays within
\* 0 .. length-1 in every state the VM reaches by tick, rewind and reset,
\* so tick never takes its branch for ip >= length.
C34_IpWithinBytecode ==
    /\ 0 <= vm.ip
    /\ vm.ip <= Len(vm.bytecode) - 1
    /\ ~pastTheEnd(vm)

\* a rewind has put the VM, after a jump, back on the final HALT
C34_Witness ==
    /\ ret # NoResult
    /\ ret.op = "rewind"
    /\ ret.value
    /\ vm.ip = Len(vm.bytecode) - 1
    /\ vm.ip > 0
    /\ \E k \in 1..Len(vm.bytecode) : vm.bytecode[k].op = "JIF"

(***************************************************************************)
(* SpecHeap: the World and the snapshots as JavaScript objects.  A field   *)
(* that holds an array or an object holds a reference; `heap.objects` maps *)
(* each reference to the contents of its object.  The operations of the    *)
(* World write into its objects in place; constructor, snapshot and        *)
(* restore make new objects.  gameState and vm.history are the same run    *)
(* computed on values, against which the objects are compared.             *)
(***************************************************************************)
\* the fields of the World that hold an array or an object (grid cells and
\* the members of the other objects are strings, numbers and booleans)
Containers == <<"grid", "revealed", "drone", "inventory", "stats", "objectivesCompleted">>

ContainerNames == { Containers[k] : k \in 1..Len(Containers) }

\* the position of a field in Containers
slot(f) == CHOOSE k \in 1..Len(Containers) : Containers[k] = f

\* new objects with the contents of the objects refs points to, one per
\* field: cloneGrid, map(row => [...row]) and { ...object }
copied(objects, refs) ==
    [objects |-> objects \o [k \in 1..Len(Containers) |-> objects[refs[Containers[k]]]],
     refs |-> [f \in ContainerNames |-> Len(objects) + slot(f)]]

\* mutant: snapshot() hands out the drone object itself
snapshotObjects_SharesDrone(h) ==
    LET c == copied(h.objects, h.world)
    IN [c EXCEPT !.refs.drone = h.world.drone]

\* snapshot(): the fields of the returned value and the objects they refer to
snapshotObjects(h) == copied(h.objects, h.world)

\* restore(snapshot): the World's fields refer to new copies of the snapshot's objects
restoreObjects(h, entry) ==
    LET c == copied(h.objects, entry)
    IN [h EXCEPT !.objects = c.objects, !.world = c.refs]

\* saveSnapshot(): push the snapshot, shift the oldest out beyond maxHistorySize
saveSnapshotObjects(h) ==
    LET c == snapshotObjects(h)
        hist == Append(h.history, c.refs)
    IN [h EXCEPT !.objects = c.objects,
                 !.history = IF Len(hist) > maxHistorySize THEN Tail(hist) ELSE hist]

\* rewind(steps) on the objects
rewindObjects(h, steps) ==
    LET targetIndex == Max(0, Len(h.history) - steps - 1) IN
    IF targetIndex < Len(h.history)
    THEN [restoreObjects(h, h.history[targetIndex + 1])
            EXCEPT !.history = SubSeq(h.history, 1, targetIndex + 1)]
    ELSE h

\* the World as read through its references (numbers and strings are fields
\* of the World itself)
derefWorld(h, gs) ==
    [gs EXCEPT !.grid = h.objects[h.world.grid],
               !.revealed = h.objects[h.world.revealed],
               !.drone = h.objects[h.world.drone],
               !.inventory = h.objects[h.world.inventory],
               !.stats = h.objects[h.world.stats],
               !.objectivesCompleted = h.objects[h.world.objectivesCompleted]]

\* the operations of the World assign to members of its objects: the
\* objects after a call that left the World as g1
written(h, g1) ==
    [h EXCEPT !.objects =
        [i \in DOMAIN h.objects |->
            IF \E f \in ContainerNames : h.world[f] = i
            THEN g1[CHOOSE f \in ContainerNames : h.world[f] = i]
            ELSE h.objects[i]]]

\* new GameState(level): one object per field
NewHeap(gs) ==
    [objects |-> [k \in 1..Len(Containers) |-> gs[Containers[k]]],
     world |-> [f \in ContainerNames |-> slot(f)],
     history |-> << >>,
     restored |-> << >>]

\* the state a history entry gave when it was first restored, a history
\* entry being known by its grid object
firstRestored(h, entry) ==
    h.restored[CHOOSE k \in 1..Len(h.restored) : h.restored[k].entry = entry].state

wasRestored(h, entry) == \E k \in 1..Len(h.restored) : h.restored[k].entry = entry

HeapSources ==
    { SrcS1,
      Program(<<CollectStatement(1), MoveStatement("forward", 2), TurnStatement("left", 3)>>),
      Program(<<LogStatement(CallExpression(Identifier("Scan", 1), << >>, 1), 1),
                MoveStatement("forward", 2), MoveStatement("forward", 3),
                CollectStatement(4)>>) }

InitHeap ==
    /\ level \in 1..Len(Levels)
    /\ gameState = NewGameState(Levels[level])
    /\ program \in HeapSources
    /\ vm = NewVirtualMachine(compile(program).instructions)
    /\ heap = NewHeap(gameState)
    /\ pre = NoTrace
    /\ saved = NoSnapshot
    /\ atSaved = NoSnapshot
    /\ ret = NoResult
    /\ actions = << >>
    /\ sinceScan = -1
    /\ twin = NoTwin
    /\ lexer = NoLexer
    /\ app = NoApp

HeapRun ==
    /\ vm.state \in {"READY", "PAUSED"}
    /\ Len(vm.eventLog) < MaxLog
    /\ vm' = run(vm)
    /\ ret' = [op |-> "run", from |-> vm.state]
    /\ UNCHANGED <<heap, level, gameState, pre, saved, atSaved, program, actions, sinceScan,
                   twin, lexer, app>>

\* one tick of the driver: on values, and on the objects
HeapTick ==
    \E r \in {driverTick(tick(vm, gameState))} :
    \E o \in {driverTick(tick(vm, derefWorld(heap, gameState)))} :
        /\ gameState.stats.ticks < MaxTicks
        /\ Len(vm.eventLog) < MaxLog
        /\ vm' = r.vm
        /\ gameState' = r.gs
        /\ heap' = written(IF o.vm.instructionCount = vm.instructionCount + 1
                           THEN saveSnapshotObjects(heap) ELSE heap,
                           o.gs)
        /\ ret' = [op |-> "tick", from |-> vm.state, value |-> r.action, error |-> r.error]
        /\ UNCHANGED <<level, pre, saved, atSaved, program, actions, sinceScan, twin, lexer,
                       app>>

\* rewind(n): on values, and on the objects
HeapRewind ==
    \E n \in 0..MaxRewind :
    \E r \in {rewind(vm, gameState, n)} :
    \E o \in {rewindObjects(heap, n)} :
    \E entry \in {IF r.result
                  THEN heap.history[Max(0, Len(heap.history) - n - 1) + 1].grid ELSE 0} :
        /\ Len(vm.eventLog) < MaxLog
        /\ vm' = r.vm
        /\ gameState' = r.gs
        /\ heap' = IF r.result /\ ~wasRestored(heap, entry)
                   THEN [o EXCEPT !.restored =
                            Append(@, [entry |-> entry,
                                       state |-> Cur(r.vm, derefWorld(o, r.gs))])]
                   ELSE o
        /\ ret' = [op |-> "rewind", steps |-> n, value |-> r.result, entry |-> entry,
                   again |-> r.result /\ wasRestored(heap, entry),
                   undone |-> r.gs # gameState]
        /\ UNCHANGED <<level, pre, saved, atSaved, program, actions, sinceScan, twin, lexer,
                       app>>

NextHeap ==
    \/ HeapRun
    \/ HeapTick
    \/ HeapRewind

SpecHeap == InitHeap /\ [][NextHeap]_vars

\* every snapshot in the history holds what the World held when it was taken
entriesKept ==
    /\ Len(heap.history) = Len(vm.history)
    /\ \A i \in 1..Len(heap.history) :
          \A f \in ContainerNames :
             heap.objects[heap.history[i][f]] = vm.history[i].gameState[f]

\* a rewind to an entry restored before has given the state it gave then
sameAsFirst ==
    (ret # NoResult /\ ret.op = "rewind" /\ ret.value)
        => Cur(vm, derefWorld(heap, gameState)) = firstRestored(heap, ret.entry)

\* C39: snapshots are isolated values.  What the World does after
\* snapshot(), and after restore(s), changes no snapshot, and restoring a
\* history entry a second time (rewind, ticks, rewind to the same entry)
\* gives the World and VM state it gave the first time.
C39_SnapshotsIsolated ==
    /\ entriesKept
    /\ derefWorld(heap, gameState) = gameState
    /\ sameAsFirst

\* the second rewind to one entry, after ticks that changed the World
C39_Witness ==
    /\ ret # NoResult
    /\ ret.op = "rewind"
    /\ ret.again
    /\ ret.undone
    /\ Len(heap.restored) >= 1

====
